---- MODULE Spec2Model ----
(***************************************************************************)
(* Model of main.py of guzhi-bot: one analysis request (process_analysis), *)
(* the fetch of the provider's data (ValuationModel.fetch_data) and the    *)
(* valuation pipeline (ValuationModel.analyze), stage by stage.            *)
(*                                                                         *)
(* Numbers are integers in fixed units:                                    *)
(*   price, priceAvg200, EV/EBITDA, P/E, VIX, volumes   : whole units      *)
(*   marketCap, cash, debt, cash-flow amounts           : billions         *)
(*   beta, net margin, ROIC, growth, P/S, PEG (TTM),                       *)
(*   10Y yield (percent)                                : hundredths       *)
(*   FCF yield (TTM, provider)                          : 1/10000          *)
(*   EPS (actual, estimated, average estimate)          : tenths           *)
(*   dates                                              : day numbers      *)
(* Quantities the code derives by division (forward P/E, forward growth,   *)
(* PEG, adjusted FCF yield, adjusted EV/EBITDA ratio) are exact fractions  *)
(* [n, d] with d > 0; the fraction with d = 0 stands for Python's None.    *)
(* NULL stands for None / a missing key of a provider's answer.            *)
(***************************************************************************)
EXTENDS Integers, Sequences, FiniteSets, TLC

NULL == -999999

\* ---------------------------------------------------------------- fractions
Q(n, d) == [n |-> n, d |-> d]

NULLQ == [n |-> 0, d |-> 0]

IsNullQ(q) == q.d = 0

QLt(a, b) == a.n * b.d < b.n * a.d

QGt(a, b) == QLt(b, a)

QLe(a, b) == ~QLt(b, a)

QEq(a, b) == a.n * b.d = b.n * a.d

QAdd(a, b) == Q(a.n * b.d + b.n * a.d, a.d * b.d)

\* a / b for b > 0
QDiv(a, b) == Q(a.n * b.d, a.d * b.n)

QScale(a, k) == Q(a.n * k, a.d)

QMax2(a, b) == IF QLt(a, b) THEN b ELSE a

\* a provider's number in hundredths as a fraction (None stays None)
FromH(x) == IF x = NULL THEN NULLQ ELSE Q(x, 100)

\* a provider's number in 1/10000 as a fraction (None stays None)
FromBp(x) == IF x = NULL THEN NULLQ ELSE Q(x, 10000)

\* Python truthiness of a number-or-None: not None and not 0
Truthy(x) == x # NULL /\ x # 0

TruthyQ(q) == ~IsNullQ(q) /\ q.n # 0

\* ------------------------------------------------------------ word lists
HARD_TECH_TICKERS ==
    {"RKLB", "LUNR", "ASTS", "SPCE", "PLTR", "IONQ", "RGTI", "DNA", "JOBY", "ACHR",
     "BABA", "NIO", "XPEV", "LI", "TSLA", "NVDA", "AMD", "MSFT", "GOOG", "GOOGL"}

BLUE_OCEAN_KEYWORDS ==
    {"aerospace", "defense", "space", "satellite", "rocket", "quantum"}

HARD_TECH_KEYWORDS ==
    {"semiconductor", "artificial intelligence", "software", "auto", "biotech", "internet"}

\* `kw in str(s).lower()` for the sector and industry names of the model:
\* the lower-case words each name contains.
WordsIn(s) ==
    CASE s = "Technology"          -> {"technology"}
      [] s = "Energy"              -> {"energy"}
      [] s = "Industrials"         -> {}
      [] s = "Unknown"             -> {"unknown"}
      [] s = "Aerospace & Defense" -> {"aerospace", "defense", "space"}
      [] s = "Semiconductors"      -> {"semiconductor"}
      [] s = "Oil & Gas"           -> {}
      [] OTHER                     -> {}

\* SECTOR_EBITDA_MEDIAN, in the dictionary's order
SECTOR_KEYS ==
    << "technology", "consumer electronics", "communication services", "healthcare",
       "financial services", "energy", "utilities", "unknown" >>

SECTOR_EBITDA_MEDIAN ==
    [k \in {SECTOR_KEYS[i] : i \in 1..Len(SECTOR_KEYS)} |->
        CASE k = "technology"             -> 32
          [] k = "consumer electronics"   -> 25
          [] k = "communication services" -> 20
          [] k = "healthcare"             -> 18
          [] k = "financial services"     -> 12
          [] k = "energy"                 -> 10
          [] k = "utilities"              -> 12
          [] k = "unknown"                -> 18]

\* get_sector_benchmark: the first key contained in the sector's name, else 18.0
get_sector_benchmark(sector) ==
    LET hits == {i \in 1..Len(SECTOR_KEYS) : SECTOR_KEYS[i] \in WordsIn(sector)}
    IN  IF sector = "" THEN 18
        ELSE IF hits = {} THEN 18
        ELSE SECTOR_EBITDA_MEDIAN[SECTOR_KEYS[CHOOSE i \in hits : \A j \in hits : i <= j]]

\* the value as it is, the default never used
extract_NoDefault(val, default) == val

\* ValuationModel.extract: the value, else the default, else None
extract(val, default) ==
    IF val = NULL THEN default ELSE val

\* None where the provider's value would be a string (a sector, an industry)
NULLS == "<None>"

\* extract, of a string
extractStr(val, default) ==
    IF val = NULLS THEN default ELSE val

\* ------------------------------------------------------------------ dates
\* datetime.now(), as a day number; every date of the model is a day number
\* and "%Y-%m-%d" strings compare as their days do.
TODAY == 5

\* x.get("date", "0000-00-00"): a record without a date sorts before every date
DateKey(x) == IF x.date = NULL THEN 0 ELSE x.date

\* list.sort(key=date) / sorted(..., key=date): stable, ascending
RECURSIVE SortAsc(_)
SortAsc(s) ==
    IF Len(s) <= 1 THEN s
    ELSE LET rest == SortAsc(SubSeq(s, 1, Len(s) - 1))
             x    == s[Len(s)]
             k    == Cardinality({i \in 1..Len(rest) : DateKey(rest[i]) <= DateKey(x)})
         IN  SubSeq(rest, 1, k) \o << x >> \o SubSeq(rest, k + 1, Len(rest))

\* sorted(..., key=date, reverse=True): stable, descending
RECURSIVE SortDesc(_)
SortDesc(s) ==
    IF Len(s) <= 1 THEN s
    ELSE LET rest == SortDesc(SubSeq(s, 1, Len(s) - 1))
             x    == s[Len(s)]
             k    == Cardinality({i \in 1..Len(rest) : DateKey(rest[i]) >= DateKey(x)})
         IN  SubSeq(rest, 1, k) \o << x >> \o SubSeq(rest, k + 1, Len(rest))

\* [e for e in s if P(e)], in order
RECURSIVE Filter(_, _)
Filter(s, keep) ==
    IF s = << >> THEN << >>
    ELSE IF keep[Head(s)] THEN << Head(s) >> \o Filter(Tail(s), keep)
    ELSE Filter(Tail(s), keep)

\* ------------------------------------------------- analyze: 1-4, base data
\* eps_ttm = r.get(...) or m.get(...)
EpsTtm(r_eps, m_eps) == IF Truthy(r_eps) THEN r_eps ELSE m_eps

\* latest_eps: epsActual of the most recent earnings record, 0 when missing
LatestEps(earnings_raw) ==
    IF Len(earnings_raw) > 0
    THEN LET val == SortDesc(earnings_raw)[1].epsActual
         IN  IF val # NULL THEN val ELSE 0
    ELSE 0

is_profitable_strict(eps_ttm, latest_eps) ==
    (eps_ttm # NULL /\ eps_ttm > 0) /\ latest_eps >= 0

\* the estimates dated today or later
FutureEstimates_FromToday(estimates) ==
    LET sorted == SortAsc(estimates)
    IN  Filter(sorted, [e \in {sorted[i] : i \in 1..Len(sorted)} |->
                            e.date # NULL /\ e.date >= TODAY])

\* the estimates dated strictly after today, earliest first
FutureEstimates(estimates) ==
    LET sorted == SortAsc(estimates)
    IN  Filter(sorted, [e \in {sorted[i] : i \in 1..Len(sorted)} |->
                            e.date # NULL /\ e.date > TODAY])

\* Forward PEG: [forward_peg, fwd_pe, fwd_growth, eps_fy1_val]
ForwardPeg(estimates, price) ==
    LET none == [forward_peg |-> NULLQ, fwd_pe |-> NULLQ, fwd_growth |-> NULLQ,
                 eps_fy1_val |-> NULL]
    IN  IF Len(estimates) > 0 /\ Truthy(price)
        THEN LET future_estimates == FutureEstimates(estimates)
             IN  IF Len(future_estimates) >= 2
                 THEN LET eps_fy1 == future_estimates[1].epsAvg
                          eps_fy2 == future_estimates[2].epsAvg
                      IN  IF eps_fy1 # NULL /\ eps_fy1 > 0 /\ eps_fy2 # NULL
                          THEN LET fwd_pe     == Q(price * 10, eps_fy1)
                                   fwd_growth == Q(eps_fy2 - eps_fy1, eps_fy1)
                               IN  [forward_peg |->
                                        IF fwd_growth.n > 0
                                        THEN QDiv(fwd_pe, QScale(fwd_growth, 100))
                                        ELSE NULLQ,
                                    fwd_pe |-> fwd_pe, fwd_growth |-> fwd_growth,
                                    eps_fy1_val |-> eps_fy1]
                          ELSE [none EXCEPT !.eps_fy1_val = eps_fy1]
                 ELSE none
        ELSE none

\* peg_used = forward_peg if forward_peg is not None else peg_ttm
PegUsed(forward_peg, peg_ttm) ==
    IF ~IsNullQ(forward_peg) THEN forward_peg ELSE FromH(peg_ttm)

\* the greatest trailing rate, the forward growth left out
MaxGrowth_TrailingOnly(rev_growth, ni_growth, fwd_growth) ==
    LET a == FromH(rev_growth)
        b == FromH(ni_growth)
        ab == IF IsNullQ(a) THEN b ELSE IF IsNullQ(b) THEN a ELSE QMax2(a, b)
    IN  IF IsNullQ(ab) THEN Q(0, 1) ELSE ab

\* max(growth_list) if growth_list else 0
MaxGrowth(rev_growth, ni_growth, fwd_growth) ==
    LET a == FromH(rev_growth)
        b == FromH(ni_growth)
        c == fwd_growth
        ab == IF IsNullQ(a) THEN b ELSE IF IsNullQ(b) THEN a ELSE QMax2(a, b)
        abc == IF IsNullQ(ab) THEN c ELSE IF IsNullQ(c) THEN ab ELSE QMax2(ab, c)
    IN  IF IsNullQ(abc) THEN Q(0, 1) ELSE abc

\* growth_desc: "low" 低成长, "stable" 稳健, "high" 高速, "hyper" 超高速,
\* "expect" 高预期
GrowthDesc(max_growth, peg_used) ==
    LET tier == IF QGt(max_growth, Q(50, 100)) THEN "hyper"
                ELSE IF QGt(max_growth, Q(20, 100)) THEN "high"
                ELSE IF QGt(max_growth, Q(5, 100)) THEN "stable"
                ELSE "low"
    IN  IF TruthyQ(peg_used) /\ QGt(peg_used, Q(3, 1)) THEN "expect" ELSE tier

\* "高速" in growth_desc or "预期" in growth_desc
IsFastOrExpected(growth_desc) == growth_desc \in {"high", "hyper", "expect"}

\* ----------------------------------------------- analyze: 5, adjusted FCF
\* every quarter with both fields present, an incomplete one skipped over
RECURSIVE CfSum_Skipping(_)
CfSum_Skipping(cf_list) ==
    IF cf_list = << >> THEN [cfo |-> 0, da |-> 0, count |-> 0]
    ELSE LET q_data == Head(cf_list)
             rest   == CfSum_Skipping(Tail(cf_list))
         IN  IF q_data.cfo # NULL /\ q_data.da # NULL
             THEN [cfo |-> q_data.cfo + rest.cfo, da |-> q_data.da + rest.da,
                   count |-> 1 + rest.count]
             ELSE rest

\* the leading run of quarters with both fields present: [cfo, da, count]
RECURSIVE CfSum(_)
CfSum(cf_list) ==
    IF cf_list = << >> THEN [cfo |-> 0, da |-> 0, count |-> 0]
    ELSE LET q_data == Head(cf_list)
         IN  IF q_data.cfo # NULL /\ q_data.da # NULL
             THEN LET rest == CfSum(Tail(cf_list))
                  IN  [cfo |-> q_data.cfo + rest.cfo, da |-> q_data.da + rest.da,
                       count |-> 1 + rest.count]
             ELSE [cfo |-> 0, da |-> 0, count |-> 0]

\* adj_fcf_yield = (ttm_cfo - 0.5 * ttm_dep_amort) / m_cap, or None
AdjFcfYield(cf_list, m_cap) ==
    IF Len(cf_list) >= 4 /\ Truthy(m_cap) /\ m_cap > 0
    THEN LET s == CfSum(cf_list)
         IN  IF s.cfo # 0 /\ s.count >= 4
             THEN QDiv(QAdd(Q(s.cfo, 1), Q(-s.da, 2)), Q(m_cap, 1))
             ELSE NULLQ
    ELSE NULLQ

FcfYieldUsed(adj_fcf_yield, fcf_yield_api) ==
    IF ~IsNullQ(adj_fcf_yield) THEN adj_fcf_yield ELSE FromBp(fcf_yield_api)

\* ----------------------------------------------- analyze: 6, track
IsBlueOcean(sector, industry) ==
    \E kw \in BLUE_OCEAN_KEYWORDS : kw \in WordsIn(sector) \/ kw \in WordsIn(industry)

IsHardTechGrowth(sector, industry, ticker) ==
    \/ \E kw \in HARD_TECH_KEYWORDS : kw \in WordsIn(sector) \/ kw \in WordsIn(industry)
    \/ (ticker \in HARD_TECH_TICKERS /\ ~IsBlueOcean(sector, industry))

\* ----------------------------------------------- analyze: 7, macro rates
IsGrowthAsset(is_blue_ocean, is_hard_tech_growth, max_growth, pe_ttm) ==
    \/ is_blue_ocean
    \/ is_hard_tech_growth
    \/ QGt(max_growth, Q(15, 100))
    \/ (Truthy(pe_ttm) /\ pe_ttm > 30)

\* the factor applied to every security, growth asset or not
MacroDiscountFactor_AnyAsset(is_growth_asset, yield_10y) ==
    IF yield_10y # NULL
    THEN IF yield_10y > 480 THEN 7
         ELSE IF yield_10y < 380 THEN 15
         ELSE 10
    ELSE 10

\* the comparisons made non-strict
MacroDiscountFactor_NonStrict(is_growth_asset, yield_10y) ==
    IF is_growth_asset /\ yield_10y # NULL
    THEN IF yield_10y >= 480 THEN 7
         ELSE IF yield_10y <= 380 THEN 15
         ELSE 10
    ELSE 10

\* macro_discount_factor in tenths: 7, 10 or 15
MacroDiscountFactor(is_growth_asset, yield_10y) ==
    IF is_growth_asset /\ yield_10y # NULL
    THEN IF yield_10y > 480 THEN 7
         ELSE IF yield_10y < 380 THEN 15
         ELSE 10
    ELSE 10

\* ----------------------------------------------- analyze: 8, VIX and meme
\* the magnitude with its sign turned
RiskVar_Negated(price, beta, vix) ==
    IF Truthy(price) /\ Truthy(beta) /\ Truthy(vix)
    THEN Q(-(vix * beta), 100)
    ELSE NULLQ

\* risk_var: the magnitude printed after the "-" (vix/100 * beta * 100, in
\* percent), or None for "N/A"
RiskVar(price, beta, vix) ==
    IF Truthy(price) /\ Truthy(beta) /\ Truthy(vix)
    THEN Q(vix * beta, 100)
    ELSE NULLQ

MemeTrend(price, price_200ma) ==
    IF Truthy(price) /\ Truthy(price_200ma)
    THEN IF price * 10 > price_200ma * 14 THEN 2
         ELSE IF price * 100 > price_200ma * 115 THEN 1
         ELSE 0
    ELSE 0

\* the tiers added up instead of the highest one alone
MemeMultiple_Cumulative(ps_ratio, ev_ebitda) ==
    (IF (Truthy(ps_ratio) /\ ps_ratio > 2000) \/ (Truthy(ev_ebitda) /\ ev_ebitda > 80) THEN 4 ELSE 0)
    + (IF (Truthy(ps_ratio) /\ ps_ratio > 1000) \/ (Truthy(ev_ebitda) /\ ev_ebitda > 40) THEN 2 ELSE 0)
    + (IF (Truthy(ps_ratio) /\ ps_ratio > 800) \/ (Truthy(ev_ebitda) /\ ev_ebitda > 30) THEN 1 ELSE 0)

MemeMultiple(ps_ratio, ev_ebitda) ==
    IF (Truthy(ps_ratio) /\ ps_ratio > 2000) \/ (Truthy(ev_ebitda) /\ ev_ebitda > 80) THEN 4
    ELSE IF (Truthy(ps_ratio) /\ ps_ratio > 1000) \/ (Truthy(ev_ebitda) /\ ev_ebitda > 40) THEN 2
    ELSE IF (Truthy(ps_ratio) /\ ps_ratio > 800) \/ (Truthy(ev_ebitda) /\ ev_ebitda > 30) THEN 1
    ELSE 0

MemeBeta(beta) ==
    IF beta > 200 THEN 2 ELSE IF beta > 130 THEN 1 ELSE 0

MemeDistortion(price, price_200ma, fcf_yield_api, peg_used) ==
    IF Truthy(price) /\ Truthy(price_200ma) /\ price > price_200ma
    THEN LET bad_fcf == fcf_yield_api # NULL /\ fcf_yield_api < 100
             bad_peg == ~IsNullQ(peg_used)
                        /\ (QLt(peg_used, Q(0, 1)) \/ QGt(peg_used, Q(4, 1)))
         IN  IF bad_fcf \/ bad_peg THEN 2 ELSE 0
    ELSE 0

MemeVolume(vol_today, vol_avg) ==
    IF Truthy(vol_today) /\ Truthy(vol_avg) /\ vol_avg > 0
    THEN IF vol_today * 10 > vol_avg * 12 THEN 1 ELSE 0
    ELSE 0

MemeShield(roic, peg_used) ==
    IF Truthy(roic) /\ roic > 20
    THEN IF TruthyQ(peg_used) /\ QLt(Q(0, 1), peg_used) /\ QLt(peg_used, Q(3, 1))
         THEN -3 ELSE -1
    ELSE 0

\* min(hi, x): the floor left out
Clamp_NoFloor(lo, hi, x) == IF x > hi THEN hi ELSE x

\* max(lo, min(hi, x))
Clamp(lo, hi, x) == IF x < lo THEN lo ELSE IF x > hi THEN hi ELSE x

\* meme_score before line 424: the points of lines 407-423
MemeScore(l) ==
    MemeTrend(l.price, l.price_200ma)
    + MemeMultiple(l.ps_ratio, l.ev_ebitda)
    + MemeBeta(l.beta)
    + MemeDistortion(l.price, l.price_200ma, l.fcf_yield_api, l.peg_used)
    + MemeVolume(l.vol_today, l.vol_avg)
    + MemeShield(l.roic, l.peg_used)

\* meme_pct = int(max(0, min(10, meme_score)) * 10)
MemePct(l) == Clamp(0, 10, MemeScore(l)) * 10

\* ----------------------------------------- analyze: 9, short-term valuation
\* every unprofitable security valued by P/S, none distressed
ValuationMode_ProfitOnly(is_profitable, is_blue_ocean, is_hard_tech_growth, net_margin, rev_growth, fcf_yield_api) ==
    [use_ps_valuation |-> ~is_profitable, is_distressed |-> FALSE, st_status |-> "fair"]

\* [use_ps_valuation, is_distressed, st_status], lines 430-451:
\* "distress_growth" 极其昂贵/困境, "distress_bleed" 极其昂贵/失血
ValuationMode(is_profitable, is_blue_ocean, is_hard_tech_growth, net_margin, rev_growth, fcf_yield_api) ==
    LET mode(ps, distressed, st) ==
            [use_ps_valuation |-> ps, is_distressed |-> distressed, st_status |-> st]
    IN  IF is_profitable THEN mode(FALSE, FALSE, "fair")
        ELSE IF is_blue_ocean \/ is_hard_tech_growth THEN mode(TRUE, FALSE, "fair")
        ELSE IF net_margin # NULL /\ net_margin < -5
        THEN IF rev_growth # NULL /\ rev_growth > 10
             THEN mode(TRUE, FALSE, "fair")
             ELSE mode(FALSE, TRUE, "distress_growth")
        ELSE IF fcf_yield_api # NULL /\ fcf_yield_api < -500
        THEN mode(FALSE, TRUE, "distress_bleed")
        ELSE mode(FALSE, FALSE, "fair")

\* th_low, th_fair, th_high, each times the macro factor (in tenths), as fractions
PsThresholds(is_blue_ocean, macro_discount_factor) ==
    LET base == IF is_blue_ocean THEN << Q(20, 10), Q(50, 10), Q(150, 10) >>
                ELSE << Q(15, 10), Q(30, 10), Q(80, 10) >>
    IN  [i \in 1..3 |-> Q(base[i].n * macro_discount_factor, base[i].d * 10)]

\* st_status of the P/S branch: "ps_low" 低估 (P/S), "ps_fair" 合理 (P/S),
\* "ps_premium" 溢价 (P/S), "ps_hot" 过热 (P/S)
PsStatus(ps_ratio, is_blue_ocean, macro_discount_factor) ==
    LET th == PsThresholds(is_blue_ocean, macro_discount_factor)
        ps == FromH(ps_ratio)
    IN  IF QLt(ps, th[1]) THEN "ps_low"
        ELSE IF QLt(ps, th[2]) THEN "ps_fair"
        ELSE IF QLt(ps, th[3]) THEN "ps_premium"
        ELSE "ps_hot"

\* adjusted_ratio = (ev_ebitda / sector_avg) / macro_discount_factor
AdjustedRatio(ev_ebitda, sector_avg, macro_discount_factor) ==
    LET ratio == Q(ev_ebitda, sector_avg)
    IN  IF macro_discount_factor # 0
        THEN QDiv(ratio, Q(macro_discount_factor, 10))
        ELSE ratio

\* the classification without the low-PEG branch of line 488
EvStatus_NoPrivilege(ev_ebitda, sector_avg, macro_discount_factor, growth_desc, peg_used) ==
    LET adjusted_ratio == AdjustedRatio(ev_ebitda, sector_avg, macro_discount_factor)
        peg_in(hi) == ~IsNullQ(peg_used) /\ QLt(Q(0, 1), peg_used) /\ QLt(peg_used, hi)
    IN  IF QLt(adjusted_ratio, Q(7, 10)) THEN "cheap"
        ELSE IF QGt(adjusted_ratio, Q(13, 10))
        THEN IF IsFastOrExpected(growth_desc) /\ peg_in(Q(20, 10))
             THEN "fair_premium" ELSE "expensive"
        ELSE "fair"

\* st_status of the EV/EBITDA branch: "cheap_growth" 便宜 (高成长), "cheap" 便宜,
\* "fair_premium" 合理溢价, "expensive" 昂贵, "fair" 估值合理
EvStatus(ev_ebitda, sector_avg, macro_discount_factor, growth_desc, peg_used) ==
    LET adjusted_ratio == AdjustedRatio(ev_ebitda, sector_avg, macro_discount_factor)
        peg_in(hi) == ~IsNullQ(peg_used) /\ QLt(Q(0, 1), peg_used) /\ QLt(peg_used, hi)
    IN  IF IsFastOrExpected(growth_desc) /\ peg_in(Q(15, 10)) THEN "cheap_growth"
        ELSE IF QLt(adjusted_ratio, Q(7, 10)) THEN "cheap"
        ELSE IF QGt(adjusted_ratio, Q(13, 10))
        THEN IF IsFastOrExpected(growth_desc) /\ peg_in(Q(20, 10))
             THEN "fair_premium" ELSE "expensive"
        ELSE "fair"

\* which branch of lines 461-503 classifies the security: "ps", "ev" or "none"
ValuationRule(use_ps_valuation, is_distressed, ps_ratio, ev_ebitda) ==
    IF is_distressed THEN "none"
    ELSE IF use_ps_valuation THEN (IF ps_ratio # NULL THEN "ps" ELSE "none")
    ELSE IF ev_ebitda # NULL THEN "ev"
    ELSE "none"

\* st_status at line 505, from the st_status of lines 430-451
ShortTermStatus(l, st_status) ==
    LET rule == ValuationRule(l.use_ps_valuation, l.is_distressed, l.ps_ratio, l.ev_ebitda)
    IN  CASE rule = "ps" -> PsStatus(l.ps_ratio, l.is_blue_ocean, l.macro_discount_factor)
          [] rule = "ev" -> EvStatus(l.ev_ebitda, l.sector_avg, l.macro_discount_factor,
                                     l.growth_desc, l.peg_used)
          [] OTHER -> st_status

\* "昂贵" in st_status
HasExpensive(status) == status \in {"expensive", "distress_growth", "distress_bleed"}

\* ------------------------------------------------------ strategy texts
\* Each text of self.strategy, by a short name:
\*  "default" 数据不足            "ps_margin" 当前价格包含极高安全边际...
\*  "knife" ...存在‘接飞刀’的风险  "meme" 价格波动性可能增加...
\*  "meme80" ...应极为谨慎评估其风险收益比   "meme90" 市场波动和回调风险已处于历史高位...
\*  "value" 当前价格具备较好的安全边际...     "blue" 估值锚点在于远期市场垄断地位...
\*  "hardtech" 当前处于以投入换增长的阶段... "poor" 风险收益比不佳...
\*  "golden" 【黄金配置窗口】...   "giant" ...‘价格公道的好公司’...
\*  "core" ...‘核心资产’...        "burn" ...在流动性收紧环境下风险极大...
\*  "zombie" ...‘僵尸股’...        "trap" ...需要警惕‘低估值陷阱’。
\*  "defensive" 低波动防御性资产...
StrategyTexts ==
    {"default", "ps_margin", "knife", "meme", "meme80", "meme90", "value", "blue",
     "hardtech", "poor", "golden", "giant", "core", "burn", "zombie", "trap", "defensive"}

\* "风险" in self.strategy
HasRisk(text) == text \in {"knife", "meme80", "meme90", "poor", "burn"}

\* "陷阱" in self.strategy
HasTrap(text) == text \in {"trap"}

\* a rule that overwrites whatever text is there
Replaceable_Any(text) == TRUE

\* self.strategy == "数据不足" or "风险" in self.strategy
Replaceable(text) == text = "default" \/ HasRisk(text)

\* ------------------------------------------------------------ the provider
\* The endpoints fetch_data gathers besides the profile
Endpoints ==
    {"quote", "metrics", "ratios", "growth", "bs", "cf", "vix", "earnings",
     "estimates", "treasury"}

\* the field of self.data each value of a provider's answer lands in
FieldEndpoint ==
    [q_price |-> "quote", q_priceAvg200 |-> "quote", q_marketCap |-> "quote",
     q_volume |-> "quote", q_avgVolume |-> "quote",
     m_evEbitda |-> "metrics", m_fcfYield |-> "metrics", m_roic |-> "metrics",
     m_eps |-> "metrics",
     r_evMultiple |-> "ratios", r_netMargin |-> "ratios", r_ps |-> "ratios",
     r_peg |-> "ratios", r_pe |-> "ratios", r_eps |-> "ratios",
     g_ni |-> "growth", g_rev |-> "growth",
     bs_cash |-> "bs", bs_debt |-> "bs",
     cf |-> "cf", vix_price |-> "vix", earnings |-> "earnings",
     estimates |-> "estimates", t_year10 |-> "treasury"]

ListFields == {"cf", "earnings", "estimates"}

\* get_json_safely answered nothing: the profile (and the screener) as None
NoAnswer ==
    [ok |-> FALSE, nonempty |-> FALSE, price |-> NULL, sector |-> NULLS,
     industry |-> NULLS, beta |-> NULL, mktCap |-> NULL]

\* get_company_profile_smart: the profile endpoint's first record, else the
\* screener's first record copied field by field, else None
get_company_profile_smart(profile, screener) ==
    IF profile.ok THEN profile
    ELSE IF screener.ok
    THEN [ok |-> TRUE, nonempty |-> TRUE, price |-> screener.price,
          sector |-> screener.sector, industry |-> screener.industry,
          beta |-> screener.beta, mktCap |-> screener.marketCap]
    ELSE NoAnswer

\* self.data after fetch_data: an endpoint that failed or answered nothing
\* reads as {} (every key None) or as the empty list
FetchedData(answers) ==
    [f \in DOMAIN FieldEndpoint |->
        IF FieldEndpoint[f] \in answers.failed
        THEN (IF f \in ListFields THEN << >> ELSE NULL)
        ELSE answers[f]]

VARIABLES
    PRIVACY_MODE,        \* the users whose privacy mode is on
    req,                 \* the interaction: [user, ticker, force_private]
    raw,                 \* what the provider answers to this request
    pc,                  \* where process_analysis / analyze stands
    is_privacy_mode,     \* process_analysis' local, read once at the start
    profile_data,        \* self.data["profile"]
    data,                \* self.data, the other endpoints
    strategy,            \* self.strategy
    short_term_verdict,  \* self.short_term_verdict
    long_term_verdict,   \* self.long_term_verdict
    risk_var,            \* self.risk_var
    logs,                \* self.logs
    loc,                 \* analyze's local variables
    result,              \* what analyze returned
    sent,                \* the messages sent to the user and the channel
    other,               \* a second request, suspended at an await: its own
                         \* interaction, locals and ValuationModel; Idle if none
    privacy_reply        \* the last answer of /privacy: to whom, the new state

vars ==
    << PRIVACY_MODE, req, raw, pc, is_privacy_mode, profile_data, data, strategy,
       short_term_verdict, long_term_verdict, risk_var, logs, loc, result, sent, other,
       privacy_reply >>

modelVars ==
    << strategy, short_term_verdict, long_term_verdict, risk_var, logs, loc, result >>

\* ValuationModel.__init__, before a request is served
\* /privacy has not been called
NoReply == [user |-> 0, state |-> FALSE]

InitRun ==
    /\ privacy_reply = NoReply
    /\ pc = "start"
    /\ is_privacy_mode = FALSE
    /\ profile_data = NoAnswer
    /\ data = FetchedData([f \in DOMAIN FieldEndpoint |-> NULL] @@ [failed |-> Endpoints])
    /\ strategy = "default"
    /\ short_term_verdict = "unknown"
    /\ long_term_verdict = "unknown"
    /\ risk_var = NULLQ
    /\ logs = << >>
    /\ loc = [stage |-> "new"]
    /\ result = [ok |-> FALSE]
    /\ sent = << >>

\* no second request
Idle == [pc |-> "none"]

\* one request, served alone
InitModel == InitRun /\ other = Idle

\* ------------------------------------------------------- process_analysis
\* lines 759-762: read the privacy setting once, acknowledge
Defer ==
    /\ pc = "start"
    /\ is_privacy_mode' = (req.force_private \/ req.user \in PRIVACY_MODE)
    /\ sent' = Append(sent, [kind |-> "defer", ephemeral |-> is_privacy_mode'])
    /\ pc' = "fetch"
    /\ UNCHANGED << privacy_reply, other, PRIVACY_MODE, req, raw, profile_data, data, modelVars >>

\* lines 764-765: ValuationModel(ticker), fetch_data
fetch_data ==
    /\ pc = "fetch"
    /\ profile_data' = get_company_profile_smart(raw.profile, raw.screener)
    /\ data' = FetchedData(raw)
    /\ pc' = "fetched"
    /\ UNCHANGED << privacy_reply, other, PRIVACY_MODE, req, raw, is_privacy_mode, modelVars, sent >>

\* fetch_data's return value
success == profile_data.ok

\* the failure message without its `return`: analyze runs all the same
ReportFetch_NoReturn ==
    /\ pc = "fetched"
    /\ LET status == IF is_privacy_mode /\ success
                     THEN << [kind |-> "public_status", ephemeral |-> FALSE] >>
                     ELSE << >>
           failure == IF ~success
                      THEN << [kind |-> "failed", ephemeral |-> is_privacy_mode] >>
                      ELSE << >>
       IN  sent' = sent \o status \o failure
    /\ pc' = "a_base"
    /\ UNCHANGED << privacy_reply, other, PRIVACY_MODE, req, raw, is_privacy_mode, profile_data, data, modelVars >>

\* lines 767-779: the public status line, the failure message
ReportFetch ==
    /\ pc = "fetched"
    /\ LET status == IF is_privacy_mode /\ success
                     THEN << [kind |-> "public_status", ephemeral |-> FALSE] >>
                     ELSE << >>
           failure == IF ~success
                      THEN << [kind |-> "failed", ephemeral |-> is_privacy_mode] >>
                      ELSE << >>
       IN  sent' = sent \o status \o failure
    /\ pc' = IF success THEN "a_base" ELSE "done"
    /\ UNCHANGED << privacy_reply, other, PRIVACY_MODE, req, raw, is_privacy_mode, profile_data, data, modelVars >>

\* ---------------------------------------------------------------- analyze
\* lines 241-336: `if not p: return None`, base data, profit check, balance
\* sheet, forward PEG, growth tier
BaseData(p, d) ==
    LET price      == extract(d.q_price, p.price)
        ev_ebitda  == IF d.r_evMultiple # NULL THEN d.r_evMultiple ELSE d.m_evEbitda
        eps_ttm    == EpsTtm(d.r_eps, d.m_eps)
        latest_eps == LatestEps(d.earnings)
        cash       == extract(d.bs_cash, 0)
        debt       == extract(d.bs_debt, 0)
        fwd        == ForwardPeg(d.estimates, price)
        peg_used   == PegUsed(fwd.forward_peg, d.r_peg)
        max_growth == MaxGrowth(d.g_rev, d.g_ni, fwd.fwd_growth)
    IN  [price |-> price,
         price_200ma |-> d.q_priceAvg200,
         sector |-> extractStr(p.sector, "Unknown"),
         industry |-> extractStr(p.industry, "Unknown"),
         beta |-> extract(p.beta, 100),
         m_cap |-> extract(d.q_marketCap, p.mktCap),
         ev_ebitda |-> ev_ebitda,
         fcf_yield_api |-> d.m_fcfYield,
         roic |-> d.m_roic,
         net_margin |-> d.r_netMargin,
         ps_ratio |-> d.r_ps,
         peg_ttm |-> d.r_peg,
         pe_ttm |-> d.r_pe,
         ni_growth |-> d.g_ni,
         rev_growth |-> d.g_rev,
         eps_ttm |-> eps_ttm,
         latest_eps |-> latest_eps,
         is_profitable_strict |-> is_profitable_strict(eps_ttm, latest_eps),
         cash |-> cash,
         debt |-> debt,
         is_cash_rich |-> cash > debt,
         forward_peg |-> fwd.forward_peg,
         fwd_pe |-> fwd.fwd_pe,
         fwd_growth |-> fwd.fwd_growth,
         eps_fy1_val |-> fwd.eps_fy1_val,
         peg_used |-> peg_used,
         is_forward_peg_used |-> ~IsNullQ(fwd.forward_peg),
         max_growth |-> max_growth,
         growth_desc |-> GrowthDesc(max_growth, peg_used)]

a_base ==
    /\ pc = "a_base"
    /\ IF ~profile_data.nonempty
       THEN /\ pc' = "reply"
            /\ UNCHANGED loc
       ELSE /\ loc' = BaseData(profile_data, data) @@ loc
            /\ pc' = "a_derive"
    /\ UNCHANGED << privacy_reply, other, PRIVACY_MODE, req, raw, is_privacy_mode, profile_data, data, strategy,
                    short_term_verdict, long_term_verdict, risk_var, logs, result, sent >>

\* lines 338-396: adjusted FCF yield, track, macro factor
Derived(l, d, ticker) ==
    LET adj_fcf_yield       == AdjFcfYield(d.cf, l.m_cap)
        is_blue_ocean       == IsBlueOcean(l.sector, l.industry)
        is_hard_tech_growth == IsHardTechGrowth(l.sector, l.industry, ticker)
        is_growth_asset     == IsGrowthAsset(is_blue_ocean, is_hard_tech_growth,
                                             l.max_growth, l.pe_ttm)
    IN  [adj_fcf_yield |-> adj_fcf_yield,
         fcf_yield_used |-> FcfYieldUsed(adj_fcf_yield, l.fcf_yield_api),
         is_blue_ocean |-> is_blue_ocean,
         is_hard_tech_growth |-> is_hard_tech_growth,
         yield_10y |-> d.t_year10,
         is_growth_asset |-> is_growth_asset,
         macro_discount_factor |-> MacroDiscountFactor(is_growth_asset, d.t_year10)]

\* macro_status_log, when the factor moved
MacroLog(macro_discount_factor) ==
    IF macro_discount_factor = 7 THEN << "macro:headwind" >>
    ELSE IF macro_discount_factor = 15 THEN << "macro:tailwind" >>
    ELSE << >>

a_derive ==
    /\ pc = "a_derive"
    /\ loc' = Derived(loc, data, req.ticker) @@ loc
    /\ logs' = logs \o MacroLog(loc'.macro_discount_factor)
    /\ pc' = "a_meme"
    /\ UNCHANGED << privacy_reply, other, PRIVACY_MODE, req, raw, is_privacy_mode, profile_data, data, strategy,
                    short_term_verdict, long_term_verdict, risk_var, result, sent >>

\* lines 398-426: VIX, risk_var, meme score
a_meme ==
    /\ pc = "a_meme"
    /\ LET vix  == extract(data.vix_price, 20)
           risk == RiskVar(loc.price, loc.beta, vix)
           l    == [vix |-> vix, vol_today |-> data.q_volume,
                    vol_avg |-> data.q_avgVolume] @@ loc
           meme_pct == MemePct(l)
       IN  /\ risk_var' = IF IsNullQ(risk) THEN risk_var ELSE risk
           /\ loc' = [meme_score |-> MemeScore(l), meme_pct |-> meme_pct,
                      is_faith_mode |-> meme_pct >= 50] @@ l
    /\ pc' = "a_valuation"
    /\ UNCHANGED << privacy_reply, other, PRIVACY_MODE, req, raw, is_privacy_mode, profile_data, data, strategy,
                    short_term_verdict, long_term_verdict, logs, result, sent >>

\* the log lines of lines 436-459: distress, balance sheet, margin
ValuationLogs(l) ==
    (IF l.st_status = "distress_growth" THEN << "warn:margin" >>
     ELSE IF l.st_status = "distress_bleed" THEN << "warn:bleed" >> ELSE << >>)
    \o (IF l.is_cash_rich THEN << "bs:net_cash" >>
        ELSE IF Truthy(l.debt) /\ Truthy(l.cash) /\ l.debt > l.cash * 5
        THEN << "bs:debt" >> ELSE << >>)
    \o (IF Truthy(l.net_margin) /\ l.net_margin > 20 THEN << "quality:margin" >> ELSE << >>)

\* the log line of the branch of lines 461-503 that classified the security
StatusLog(rule, st_status) ==
    IF rule = "none" THEN << >>
    ELSE IF rule = "ps" THEN << "ps:" >>
    ELSE IF st_status \in {"cheap_growth", "fair_premium"} THEN << "growth:privilege" >>
    ELSE << "sector:" >>

\* lines 428-505: the short-term verdict
a_valuation ==
    /\ pc = "a_valuation"
    /\ LET mode == ValuationMode(loc.is_profitable_strict, loc.is_blue_ocean,
                                 loc.is_hard_tech_growth, loc.net_margin, loc.rev_growth,
                                 loc.fcf_yield_api)
           l    == [sector_avg |-> get_sector_benchmark(loc.sector),
                    use_ps_valuation |-> mode.use_ps_valuation,
                    is_distressed |-> mode.is_distressed,
                    st_status |-> mode.st_status] @@ loc
           rule == ValuationRule(l.use_ps_valuation, l.is_distressed, l.ps_ratio, l.ev_ebitda)
           st_status == ShortTermStatus(l, mode.st_status)
       IN  /\ loc' = [st_status |-> st_status, valuation_rule |-> rule] @@ l
           /\ logs' = logs \o ValuationLogs(l) \o StatusLog(rule, st_status)
           /\ strategy' = IF st_status = "ps_low" THEN "ps_margin" ELSE strategy
           /\ short_term_verdict' = st_status
    /\ pc' = "a_trap"
    /\ UNCHANGED << privacy_reply, other, PRIVACY_MODE, req, raw, is_privacy_mode, profile_data, data,
                    long_term_verdict, risk_var, result, sent >>

\* the trend test turned round: price above the 200-day average
IsValueTrap_Uptrend(net_margin, price_200ma, price, use_ps_valuation) ==
    /\ net_margin # NULL /\ net_margin < 0
    /\ Truthy(price_200ma) /\ Truthy(price) /\ price > price_200ma
    /\ ~use_ps_valuation

\* is_value_trap, lines 510-511
IsValueTrap(net_margin, price_200ma, price, use_ps_valuation) ==
    /\ net_margin # NULL /\ net_margin < 0
    /\ Truthy(price_200ma) /\ Truthy(price) /\ price < price_200ma
    /\ ~use_ps_valuation

\* the falling-knife relabel written to self.short_term_verdict as well
a_trap_Published ==
    /\ pc = "a_trap"
    /\ LET is_value_trap == IsValueTrap(loc.net_margin, loc.price_200ma, loc.price,
                                        loc.use_ps_valuation)
       IN  /\ loc' = [lt_status |-> IF is_value_trap THEN "extreme_risk" ELSE "neutral",
                      st_status |-> IF is_value_trap THEN "downtrend" ELSE loc.st_status,
                      is_value_trap |-> is_value_trap,
                      is_giant |-> loc.m_cap # NULL /\ loc.m_cap > 200] @@ loc
           /\ short_term_verdict' = IF is_value_trap THEN "downtrend" ELSE short_term_verdict
           /\ logs' = IF is_value_trap THEN Append(logs, "risk:value_trap") ELSE logs
           /\ strategy' = IF is_value_trap THEN "knife" ELSE strategy
           /\ pc' = IF is_value_trap THEN "a_return" ELSE "a_peg"
    /\ UNCHANGED << privacy_reply, other, PRIVACY_MODE, req, raw, is_privacy_mode, profile_data,
                    data, long_term_verdict, risk_var, result, sent >>

\* lines 507-520: the value trap ("falling knife"), the giant flag
a_trap ==
    /\ pc = "a_trap"
    /\ LET is_value_trap == IsValueTrap(loc.net_margin, loc.price_200ma, loc.price,
                                        loc.use_ps_valuation)
       IN  /\ loc' = [lt_status |-> IF is_value_trap THEN "extreme_risk" ELSE "neutral",
                      st_status |-> IF is_value_trap THEN "downtrend" ELSE loc.st_status,
                      is_value_trap |-> is_value_trap,
                      is_giant |-> loc.m_cap # NULL /\ loc.m_cap > 200] @@ loc
           /\ logs' = IF is_value_trap THEN Append(logs, "risk:value_trap") ELSE logs
           /\ strategy' = IF is_value_trap THEN "knife" ELSE strategy
           /\ pc' = IF is_value_trap THEN "a_return" ELSE "a_peg"
    /\ UNCHANGED << privacy_reply, other, PRIVACY_MODE, req, raw, is_privacy_mode, profile_data, data,
                    short_term_verdict, long_term_verdict, risk_var, result, sent >>

\* the PEG log line of lines 529-551
PegLog(l) ==
    IF ~IsNullQ(l.peg_used) /\ QGt(l.peg_used, Q(0, 1))
    THEN IF l.is_blue_ocean
         THEN (IF QLt(l.peg_used, Q(5, 10)) THEN "peg:distorted"
               ELSE IF QLt(l.peg_used, Q(15, 10)) THEN "peg:low"
               ELSE IF QLe(l.peg_used, Q(4, 1)) THEN "peg:tolerated"
               ELSE "peg:overdrawn")
         ELSE IF l.is_hard_tech_growth
         THEN (IF QLt(l.peg_used, Q(1, 1)) THEN "peg:rare"
               ELSE IF QLe(l.peg_used, Q(2, 1)) THEN "peg:garp"
               ELSE IF QLe(l.peg_used, Q(3, 1)) THEN "peg:premium"
               ELSE "peg:bubble")
         ELSE (IF QLt(l.peg_used, Q(8, 10)) THEN "peg:low"
               ELSE IF QLe(l.peg_used, Q(15, 10)) THEN "peg:fair"
               ELSE "peg:n/a")
    ELSE IF IsNullQ(l.peg_used)
    THEN (IF ~l.is_profitable_strict /\ (l.eps_fy1_val = NULL \/ l.eps_fy1_val <= 0)
          THEN "peg:unprofitable" ELSE "peg:missing")
    ELSE "peg:negative"

\* lines 523-551
a_peg ==
    /\ pc = "a_peg"
    /\ logs' = Append(logs, PegLog(loc))
    /\ pc' = "a_meme_rule"
    /\ UNCHANGED << privacy_reply, other, PRIVACY_MODE, req, raw, is_privacy_mode, profile_data, data, strategy,
                    short_term_verdict, long_term_verdict, risk_var, loc, result, sent >>

\* meme_strategy_text, lines 556-569
MemeStrategyText(meme_pct) ==
    IF meme_pct >= 80 /\ meme_pct < 90 THEN "meme80"
    ELSE IF meme_pct >= 90 THEN "meme90"
    ELSE "meme"

\* st_status += " / 资金动量"
WithMomentum(status) ==
    CASE status = "expensive"       -> "expensive/momentum"
      [] status = "distress_growth" -> "distress_growth/momentum"
      [] status = "distress_bleed"  -> "distress_bleed/momentum"
      [] OTHER                      -> status

\* the rule of line 578: the meme text, when no strategy is set yet and the
\* giant exemption does not apply
MemeRule(text, is_faith_mode, is_giant, meme_pct) ==
    IF is_faith_mode /\ ~(is_giant /\ meme_pct < 80) /\ text = "default"
    THEN MemeStrategyText(meme_pct)
    ELSE text

\* lines 553-578: meme mode
a_meme_rule ==
    /\ pc = "a_meme_rule"
    /\ LET exempt == loc.is_giant /\ loc.meme_pct < 80
       IN  /\ logs' = IF loc.is_faith_mode THEN << "faith:" >> \o logs ELSE logs
           /\ loc' = IF loc.is_faith_mode /\ ~exempt
                     THEN [st_status |-> IF HasExpensive(loc.st_status)
                                         THEN WithMomentum(loc.st_status)
                                         ELSE loc.st_status,
                           lt_status |-> IF loc.lt_status = "expensive"
                                         THEN "premium/momentum"
                                         ELSE loc.lt_status] @@ loc
                     ELSE loc
           /\ strategy' = MemeRule(strategy, loc.is_faith_mode, loc.is_giant, loc.meme_pct)
    /\ pc' = "a_fcf_rule"
    /\ UNCHANGED << privacy_reply, other, PRIVACY_MODE, req, raw, is_privacy_mode, profile_data, data,
                    short_term_verdict, long_term_verdict, risk_var, result, sent >>

\* is_high_quality_growth, lines 583-587
IsHighQualityGrowth(growth_desc, roic) ==
    /\ \/ growth_desc \in {"high", "hyper"}
       \/ (growth_desc = "stable" /\ roic # NULL /\ roic > 20)
    /\ roic # NULL /\ roic > 15

\* adj_fcf_yield > fcf_yield_api + 0.0005
AdjBeatsRaw(adj_fcf_yield, fcf_yield_api) ==
    fcf_yield_api # NULL /\ QGt(adj_fcf_yield, Q(fcf_yield_api + 5, 10000))

\* lines 590-604, reached when fcf_yield_used is not None:
\* [lt_status, strategy, logs]
FcfRule(l, text) ==
    LET keep == [lt_status |-> l.lt_status, strategy |-> text, logs |-> << >>]
        ok   == ~IsNullQ(l.adj_fcf_yield)
        rich == ok /\ QGt(l.adj_fcf_yield, Q(4, 100))
    IN  IF ok /\ l.use_ps_valuation
        THEN IF AdjBeatsRaw(l.adj_fcf_yield, l.fcf_yield_api)
             THEN [keep EXCEPT !.logs = << "capex:" >>,
                               !.lt_status = IF rich THEN "cheap" ELSE l.lt_status]
             ELSE keep
        ELSE IF ok /\ ~l.use_ps_valuation
        THEN IF rich /\ ~l.is_faith_mode
             THEN [lt_status |-> "cheap", logs |-> << "fix:expansion" >>,
                   strategy |-> IF text = "default" THEN "value" ELSE text]
             ELSE IF AdjBeatsRaw(l.adj_fcf_yield, l.fcf_yield_api)
             THEN [keep EXCEPT !.logs = IF Truthy(l.roic) /\ l.roic > 15
                                        THEN << "fix:roic" >> ELSE << "fix:capex" >>]
             ELSE keep
        ELSE keep

a_fcf_rule ==
    /\ pc = "a_fcf_rule"
    /\ IF ~IsNullQ(loc.fcf_yield_used)
       THEN LET r == FcfRule(loc, strategy)
            IN  /\ loc' = [lt_status |-> r.lt_status] @@ loc
                /\ strategy' = r.strategy
                /\ logs' = logs \o r.logs
                /\ pc' = "a_track_rule"
       ELSE /\ UNCHANGED << loc, strategy, logs >>
            /\ pc' = "a_roic"
    /\ UNCHANGED << privacy_reply, other, PRIVACY_MODE, req, raw, is_privacy_mode, profile_data, data,
                    short_term_verdict, long_term_verdict, risk_var, result, sent >>

\* lines 606-616: the blue-ocean and hard-tech rules: [lt_status, strategy, logs]
TrackRule(l, text) ==
    IF l.is_blue_ocean
    THEN [lt_status |-> "blue_ocean",
          logs |-> IF IsNullQ(l.adj_fcf_yield) THEN << "moat:blue_ocean" >> ELSE << >>,
          strategy |-> IF Replaceable(text) THEN "blue" ELSE text]
    ELSE IF l.is_hard_tech_growth /\ l.use_ps_valuation
    THEN [lt_status |-> "watch/growth", logs |-> << >>,
          strategy |-> IF Replaceable(text) THEN "hardtech" ELSE text]
    ELSE [lt_status |-> l.lt_status, logs |-> << >>, strategy |-> text]

a_track_rule ==
    /\ pc = "a_track_rule"
    /\ LET r == TrackRule(loc, strategy)
       IN  /\ loc' = [lt_status |-> r.lt_status] @@ loc
           /\ strategy' = r.strategy
           /\ logs' = logs \o r.logs
    /\ pc' = "a_quality_rule"
    /\ UNCHANGED << privacy_reply, other, PRIVACY_MODE, req, raw, is_privacy_mode, profile_data, data,
                    short_term_verdict, long_term_verdict, risk_var, result, sent >>

\* any(tag in x for x in self.logs), for the lines the model names tag:...
HasLog(lines, tags) == \E i \in 1..Len(lines) : lines[i] \in tags

\* "[价值修正]" in x
ValueFixLogs == {"fix:expansion", "fix:roic", "fix:capex"}

\* "[辩证]" in x or "[价值修正]" in x
DialecticLogs == {"dialectic:expansion", "dialectic:quality"} \cup ValueFixLogs

\* the giant test taken before the sector-discount test
QualityText_GiantFirst(ev_ebitda, sector_avg, is_giant, adj_fcf_yield) ==
    IF is_giant /\ TruthyQ(adj_fcf_yield) /\ QGt(adj_fcf_yield, Q(3, 100)) THEN "giant"
    ELSE IF ev_ebitda # NULL /\ ev_ebitda * 10 < sector_avg * 9 THEN "golden"
    ELSE "core"

\* lines 632-640: the text the top-quality rule writes
QualityText(ev_ebitda, sector_avg, is_giant, adj_fcf_yield) ==
    IF ev_ebitda # NULL /\ ev_ebitda * 10 < sector_avg * 9 THEN "golden"
    ELSE IF is_giant /\ TruthyQ(adj_fcf_yield) /\ QGt(adj_fcf_yield, Q(3, 100)) THEN "giant"
    ELSE "core"

\* lines 618-640, reached when fcf_yield_used is not None:
\* [lt_status, strategy, logs]
QualityRule(l, text, lines) ==
    LET keep == [lt_status |-> l.lt_status, strategy |-> text, logs |-> << >>]
        ok   == ~IsNullQ(l.adj_fcf_yield)
        top  == Truthy(l.roic) /\ l.roic > 20
        fcf_threshold == IF top THEN Q(1, 100) ELSE Q(2, 100)
        low  == QLt(l.fcf_yield_used, fcf_threshold)
        hqg  == IsHighQualityGrowth(l.growth_desc, l.roic)
    IN  IF ~l.use_ps_valuation /\ (~ok \/ (ok /\ l.lt_status # "cheap"))
        THEN IF low /\ hqg /\ ~l.is_faith_mode
             THEN [keep EXCEPT !.lt_status = "expectation/expansion",
                               !.logs = << "dialectic:expansion" >>]
             ELSE IF low /\ ~hqg /\ ~l.is_faith_mode
             THEN [lt_status |-> "expensive", logs |-> << "value:low_fcf" >>,
                   strategy |-> IF text = "default" THEN "poor" ELSE text]
             ELSE IF top /\ ~l.is_faith_mode
             THEN [lt_status |-> "quality/wait",
                   logs |-> IF HasLog(lines, ValueFixLogs) THEN << >>
                            ELSE << "dialectic:quality" >>,
                   strategy |-> IF Replaceable(text)
                                THEN QualityText(l.ev_ebitda, l.sector_avg, l.is_giant,
                                                 l.adj_fcf_yield)
                                ELSE text]
             ELSE keep
        ELSE keep

a_quality_rule ==
    /\ pc = "a_quality_rule"
    /\ LET r == QualityRule(loc, strategy, logs)
       IN  /\ loc' = [lt_status |-> r.lt_status] @@ loc
           /\ strategy' = r.strategy
           /\ logs' = logs \o r.logs
    /\ pc' = "a_roic"
    /\ UNCHANGED << privacy_reply, other, PRIVACY_MODE, req, raw, is_privacy_mode, profile_data, data,
                    short_term_verdict, long_term_verdict, risk_var, result, sent >>

\* lines 642-649: the moat line, the missing-FCF warning
a_roic ==
    /\ pc = "a_roic"
    /\ LET moat == Truthy(loc.roic) /\ loc.roic > 15 /\ loc.lt_status # "expensive"
                   /\ ~loc.is_value_trap
           line1 == IF moat /\ ~HasLog(logs, DialecticLogs) THEN << "moat:roic" >> ELSE << >>
           line2 == IF IsNullQ(loc.fcf_yield_used) /\ ~loc.use_ps_valuation
                    THEN << "warn:no_fcf" >> ELSE << >>
       IN  /\ logs' = logs \o line1 \o line2
           /\ loc' = [lt_status |-> IF moat /\ loc.lt_status = "neutral"
                                    THEN "quality" ELSE loc.lt_status] @@ loc
    /\ pc' = "a_earnings"
    /\ UNCHANGED << privacy_reply, other, PRIVACY_MODE, req, raw, is_privacy_mode, profile_data, data, strategy,
                    short_term_verdict, long_term_verdict, risk_var, result, sent >>

\* the date test left out: of the 12 most recent records, those with revenue
\* and EPS present
ValidEarnings_AnyDate(earnings_raw) ==
    LET sorted_earnings == SortDesc(earnings_raw)
        recent_earnings == SubSeq(sorted_earnings, 1,
                                  IF Len(sorted_earnings) < 12
                                  THEN Len(sorted_earnings) ELSE 12)
    IN  Filter(recent_earnings,
               [e \in {recent_earnings[i] : i \in 1..Len(recent_earnings)} |->
                    /\ extract(e.revenueActual, e.revenue) # NULL
                    /\ e.epsActual # NULL])

\* lines 652-665: of the 12 most recent records, those dated today or earlier
\* with revenue and EPS present, most recent first
ValidEarnings(earnings_raw) ==
    LET sorted_earnings == SortDesc(earnings_raw)
        recent_earnings == SubSeq(sorted_earnings, 1,
                                  IF Len(sorted_earnings) < 12
                                  THEN Len(sorted_earnings) ELSE 12)
    IN  Filter(recent_earnings,
               [e \in {recent_earnings[i] : i \in 1..Len(recent_earnings)} |->
                    /\ e.date # NULL /\ e.date <= TODAY
                    /\ extract(e.revenueActual, e.revenue) # NULL
                    /\ e.epsActual # NULL])

\* recent_4 = sorted(valid_earnings, key=date)[-4:]
Recent4(earnings_raw) ==
    LET trend_data == SortAsc(ValidEarnings(earnings_raw))
        n == Len(trend_data)
    IN  SubSeq(trend_data, IF n > 4 THEN n - 3 ELSE 1, n)

\* lines 669-675: the reversal lines
TrendLog(recent_4) ==
    LET n == Len(recent_4)
        epss == [i \in 1..n |-> recent_4[i].epsActual]
    IN  IF n >= 3
        THEN IF (\A i \in 1..(n - 1) : epss[i] < 0) /\ epss[n] > 0
             THEN << "reversal:turnaround" >>
             ELSE IF (\A i \in 1..n : epss[i] < 0) /\ epss[n] > epss[n - 1]
             THEN << "reversal:narrowing" >>
             ELSE << >>
        ELSE << >>

\* lines 677-687: the beat-rate line
AlphaLog(recent_4) ==
    LET total == Len(recent_4)
        beats == Cardinality({i \in 1..total :
                     recent_4[i].epsEstimated # NULL
                     /\ recent_4[i].epsActual > recent_4[i].epsEstimated})
    IN  IF total > 0
        THEN (IF beats * 4 >= total * 3 THEN << "alpha:beats" >> ELSE << "alpha:misses" >>)
        ELSE << "alpha:none" >>

\* lines 651-687: the earnings trend
a_earnings ==
    /\ pc = "a_earnings"
    /\ LET recent_4 == Recent4(data.earnings)
       IN  logs' = logs \o TrendLog(recent_4) \o AlphaLog(recent_4)
    /\ pc' = "a_fallback"
    /\ UNCHANGED << privacy_reply, other, PRIVACY_MODE, req, raw, is_privacy_mode, profile_data, data, strategy,
                    short_term_verdict, long_term_verdict, risk_var, loc, result, sent >>

\* abs(x)
Abs(x) == IF x < 0 THEN -x ELSE x

\* a text written whenever no strategy is set yet
FallbackRule_Always(l, text) == IF text = "default" THEN "zombie" ELSE text

\* lines 690-694: the cash-burn and zombie texts, when no strategy is set yet
FallbackRule(l, text) ==
    IF text = "default"
    THEN IF Truthy(l.rev_growth) /\ l.rev_growth > 20 /\ Truthy(l.roic) /\ l.roic < 0
            /\ TruthyQ(l.fcf_yield_used) /\ QLt(l.fcf_yield_used, Q(-2, 100))
         THEN "burn"
         ELSE IF Truthy(l.rev_growth) /\ Abs(l.rev_growth) < 5 /\ Truthy(l.roic)
                 /\ l.roic < 8 /\ TruthyQ(l.fcf_yield_used)
                 /\ QLt(l.fcf_yield_used, Q(3, 100))
         THEN "zombie"
         ELSE text
    ELSE text

a_fallback ==
    /\ pc = "a_fallback"
    /\ strategy' = FallbackRule(loc, strategy)
    /\ pc' = "a_final_rules"
    /\ UNCHANGED << privacy_reply, other, PRIVACY_MODE, req, raw, is_privacy_mode, profile_data, data,
                    short_term_verdict, long_term_verdict, risk_var, logs, loc, result, sent >>

\* "风险" in lt_status
LtHasRisk(status) == status \in {"extreme_risk", "cyclical_risk"}

\* lines 696-704: the low-P/E trap and the defensive rule:
\* [lt_status, strategy, logs]
FinalRules(l, text) ==
    IF Truthy(l.pe_ttm) /\ l.pe_ttm < 8 /\ Truthy(l.rev_growth) /\ l.rev_growth < -5
       /\ ~LtHasRisk(l.lt_status)
    THEN [strategy |-> "trap", lt_status |-> "cyclical_risk", logs |-> << "trap:" >>]
    ELSE IF Truthy(l.beta) /\ l.beta < 60 /\ TruthyQ(l.fcf_yield_used)
            /\ QGt(l.fcf_yield_used, Q(3, 100)) /\ ~HasTrap(text)
    THEN [strategy |-> "defensive", lt_status |-> "defensive/income",
          logs |-> << "defensive:" >>]
    ELSE [strategy |-> text, lt_status |-> l.lt_status, logs |-> << >>]

a_final_rules ==
    /\ pc = "a_final_rules"
    /\ LET r == FinalRules(loc, strategy)
       IN  /\ loc' = [lt_status |-> r.lt_status] @@ loc
           /\ strategy' = r.strategy
           /\ logs' = logs \o r.logs
    /\ pc' = "a_return"
    /\ UNCHANGED << privacy_reply, other, PRIVACY_MODE, req, raw, is_privacy_mode, profile_data, data,
                    short_term_verdict, long_term_verdict, risk_var, result, sent >>

\* lines 706-718: the long-term verdict and the returned dict
a_return ==
    /\ pc = "a_return"
    /\ long_term_verdict' = loc.lt_status
    /\ result' = [ok |-> TRUE, price |-> loc.price, beta |-> loc.beta,
                  peg |-> loc.peg_used, m_cap |-> loc.m_cap,
                  growth_desc |-> loc.growth_desc, risk_var |-> risk_var,
                  meme_pct |-> loc.meme_pct, is_profitable |-> loc.is_profitable_strict]
    /\ pc' = "reply"
    /\ UNCHANGED << privacy_reply, other, PRIVACY_MODE, req, raw, is_privacy_mode, profile_data, data, strategy,
                    short_term_verdict, risk_var, logs, loc, sent >>

\* the messages after analyze flagged by the setting as it is now
Reply_LiveSetting ==
    /\ pc = "reply"
    /\ LET live == req.force_private \/ req.user \in PRIVACY_MODE
       IN  IF ~result.ok
           THEN /\ sent' = Append(sent, [kind |-> "insufficient", ephemeral |-> live])
                /\ pc' = "done"
           ELSE IF result.price = NULL
           THEN /\ sent' = sent
                /\ pc' = "raised"
           ELSE /\ sent' = Append(sent, [kind |-> "embed", ephemeral |-> live,
                                         short_term |-> short_term_verdict,
                                         long_term |-> long_term_verdict,
                                         strategy |-> strategy,
                                         meme_pct |-> result.meme_pct,
                                         risk_var |-> result.risk_var,
                                         logs |-> logs])
                /\ pc' = "done"
    /\ UNCHANGED << privacy_reply, other, PRIVACY_MODE, req, raw, is_privacy_mode, profile_data,
                    data, modelVars >>

\* lines 781-845: "insufficient data" when analyze returned None; else the
\* embed, whose description formats data['price'] with :.2f and raises on None
Reply ==
    /\ pc = "reply"
    /\ IF ~result.ok
       THEN /\ sent' = Append(sent, [kind |-> "insufficient", ephemeral |-> is_privacy_mode])
            /\ pc' = "done"
       ELSE IF result.price = NULL
       THEN /\ sent' = sent
            /\ pc' = "raised"
       ELSE /\ sent' = Append(sent, [kind |-> "embed", ephemeral |-> is_privacy_mode,
                                     short_term |-> short_term_verdict,
                                     long_term |-> long_term_verdict,
                                     strategy |-> strategy,
                                     meme_pct |-> result.meme_pct,
                                     risk_var |-> result.risk_var,
                                     logs |-> logs])
            /\ pc' = "done"
    /\ UNCHANGED << privacy_reply, other, PRIVACY_MODE, req, raw, is_privacy_mode, profile_data, data, modelVars >>

Next ==
    \/ Defer
    \/ fetch_data
    \/ ReportFetch
    \/ a_base
    \/ a_derive
    \/ a_meme
    \/ a_valuation
    \/ a_trap
    \/ a_peg
    \/ a_meme_rule
    \/ a_fcf_rule
    \/ a_track_rule
    \/ a_quality_rule
    \/ a_roic
    \/ a_earnings
    \/ a_fallback
    \/ a_final_rules
    \/ a_return
    \/ Reply

\* ------------------------------------------------------ provider's answers
NoScreener ==
    [ok |-> FALSE, price |-> NULL, sector |-> NULLS, industry |-> NULLS,
     beta |-> NULL, marketCap |-> NULL]

\* An ordinary profitable company: every endpoint answers
BaseAnswers ==
    [failed |-> {},
     profile |-> [ok |-> TRUE, nonempty |-> TRUE, price |-> 100, sector |-> "Industrials",
                  industry |-> "Oil & Gas", beta |-> 100, mktCap |-> 50],
     screener |-> NoScreener,
     q_price |-> 100, q_priceAvg200 |-> 90, q_marketCap |-> 50, q_volume |-> 10,
     q_avgVolume |-> 10,
     m_evEbitda |-> NULL, m_fcfYield |-> 300, m_roic |-> 12, m_eps |-> 20,
     r_evMultiple |-> 18, r_netMargin |-> 10, r_ps |-> 300, r_peg |-> 120, r_pe |-> 20,
     r_eps |-> 20,
     g_ni |-> 8, g_rev |-> 8,
     bs_cash |-> 5, bs_debt |-> 5,
     cf |-> << >>, vix_price |-> 20, earnings |-> << >>, estimates |-> << >>,
     t_year10 |-> 420]

BaseReq == [user |-> 1, ticker |-> "XOM", force_private |-> FALSE]

\* sector, industry and ticker of a plain, a blue-ocean and a hard-tech security
Tracks ==
    {[ticker |-> "XOM", sector |-> "Energy", industry |-> "Oil & Gas"],
     [ticker |-> "RKLB", sector |-> "Industrials", industry |-> "Aerospace & Defense"],
     [ticker |-> "NVDA", sector |-> "Technology", industry |-> "Semiconductors"]}

\* four quarters of cash flow: operating cash flow 4, D&A 2 each
FourQuarters == [i \in 1..4 |-> [cfo |-> 4, da |-> 2]]

WithTrack(answers, t) ==
    [answers EXCEPT !.profile.sector = t.sector, !.profile.industry = t.industry]

\* ------------------------------------------------- strategy resolution
\* (EPS, net margin): profitable, loss-making, profitable on EPS with a
\* negative margin
Earners == {<< 20, 10 >>, << -10, -15 >>, << 20, -15 >>}

\* (market cap, quarterly cash flows): no cash-flow statements, an adjusted
\* FCF yield of 24%, and a giant with either (adjusted FCF yield 4%)
CapAndCashFlow ==
    {<< 50, << >> >>, << 50, FourQuarters >>, << 300, << >> >>, << 300, FourQuarters >>}

StrategyAnswers(t) ==
    {[WithTrack(BaseAnswers, t) EXCEPT
         !.r_eps = e[1], !.r_netMargin = e[2], !.q_priceAvg200 = ma, !.m_roic = roic,
         !.r_evMultiple = ev, !.m_fcfYield = fcf, !.g_rev = rev, !.r_pe = pe,
         !.profile.beta = beta, !.r_ps = ps, !.q_marketCap = c[1], !.cf = c[2]] :
        e \in Earners, ma \in {60, 120}, roic \in {25, -5}, ev \in {6, 9},
        fcf \in {NULL, -300, 350}, rev \in {-10, 3, 25}, pe \in {6, 20},
        beta \in {50, 210}, ps \in {100, 2500}, c \in CapAndCashFlow}

Init ==
    /\ InitModel
    /\ PRIVACY_MODE = {}
    /\ \E t \in Tracks :
          /\ req = [BaseReq EXCEPT !.ticker = t.ticker]
          /\ raw \in StrategyAnswers(t)

Spec == Init /\ [][Next]_vars

\* ------------------------------------------------- requests and failures
\* A company with cash-flow statements, past earnings and future estimates
RichAnswers ==
    [BaseAnswers EXCEPT
        !.cf = FourQuarters,
        !.earnings = << [date |-> 4, epsActual |-> 12, epsEstimated |-> 10,
                         revenueActual |-> 9, revenue |-> NULL],
                        [date |-> 3, epsActual |-> 8, epsEstimated |-> 10,
                         revenueActual |-> NULL, revenue |-> 8],
                        [date |-> 2, epsActual |-> 11, epsEstimated |-> NULL,
                         revenueActual |-> 7, revenue |-> NULL] >>,
        !.estimates = << [date |-> 6, epsAvg |-> 20], [date |-> 7, epsAvg |-> 24] >>]

\* the profile endpoint answers with a price; it answers without one; only
\* the screener answers; neither answers
ProfileCases ==
    {<< RichAnswers.profile, NoScreener >>,
     << [RichAnswers.profile EXCEPT !.price = NULL], NoScreener >>,
     << NoAnswer, [ok |-> TRUE, price |-> 100, sector |-> "Energy", industry |-> "Oil & Gas",
                   beta |-> 100, marketCap |-> 50] >>,
     << NoAnswer, NoScreener >>}

\* who asks and how: publicly, with privacy mode on, through the private command
RequestCases ==
    {<< {}, FALSE >>, << {1}, FALSE >>, << {}, TRUE >>}

RequestAnswers ==
    {[RichAnswers EXCEPT !.failed = f, !.profile = p[1], !.screener = p[2]] :
        f \in SUBSET Endpoints, p \in ProfileCases}

InitRequest ==
    /\ InitModel
    /\ \E r \in RequestCases :
          /\ PRIVACY_MODE = r[1]
          /\ req = [BaseReq EXCEPT !.force_private = r[2]]
    /\ raw \in RequestAnswers

SpecRequest == InitRequest /\ [][Next]_vars

\* --------------------------------------------------------- macro rates
\* 10-year yields in hundredths of a percent, around both thresholds
Yields == {NULL, 379, 380, 420, 480, 481}

\* growth assets by track, by revenue growth (0.25) and by P/E (40), and
\* securities that are none (revenue growth 0.03, P/E 20, track XOM)
MacroAnswers(t) ==
    {[WithTrack(BaseAnswers, t) EXCEPT
         !.t_year10 = y, !.failed = f, !.g_rev = rev, !.r_pe = pe, !.r_evMultiple = ev] :
        y \in Yields, f \in {{}, {"treasury"}}, rev \in {3, 25}, pe \in {20, 40},
        ev \in {6, 30}}

InitMacro ==
    /\ InitModel
    /\ PRIVACY_MODE = {}
    /\ \E t \in Tracks :
          /\ req = [BaseReq EXCEPT !.ticker = t.ticker]
          /\ raw \in MacroAnswers(t)

SpecMacro == InitMacro /\ [][Next]_vars

\* ------------------------------------------------ short-term valuation
\* (EPS, net margin, FCF yield): profitable; losing more than 5% of revenue;
\* losing less; losing less while bleeding cash; margin unknown
ValuationEarners ==
    {<< 20, 10, 300 >>, << -10, -15, 300 >>, << -10, -3, 300 >>, << -10, -3, -600 >>,
     << -10, NULL, 300 >>}

\* EV/EBITDA against a sector average of 10 (Energy), 18 and 32; P/E ratios
\* to growth around 1.5 and 2.0; P/S around 1.5; yields of each macro regime
ValuationAnswers(t) ==
    {[WithTrack(BaseAnswers, t) EXCEPT
         !.r_eps = e[1], !.r_netMargin = e[2], !.m_fcfYield = e[3], !.g_rev = rev,
         !.r_peg = peg, !.r_evMultiple = ev, !.t_year10 = y, !.r_ps = ps] :
        e \in ValuationEarners, rev \in {3, 25, 60}, peg \in {NULL, -50, 120, 150, 180, 200},
        ev \in {NULL, 6, 7, 13, 14}, y \in {370, 420, 490}, ps \in {NULL, 100, 150, 2500}}

InitValuation ==
    /\ InitModel
    /\ PRIVACY_MODE = {}
    /\ \E t \in Tracks :
          /\ req = [BaseReq EXCEPT !.ticker = t.ticker]
          /\ raw \in ValuationAnswers(t)

SpecValuation == InitValuation /\ [][Next]_vars

\* ------------------------------------------------------ analyst estimates
\* the longest list of estimates the provider answers with
MaxEstimates == 3

\* estimate records (EPS in tenths): dated today, one, two and three periods
\* ahead, with a loss, without an EPS, without a date
EstimateRecords ==
    {[date |-> 5, epsAvg |-> 30], [date |-> 6, epsAvg |-> 20], [date |-> 7, epsAvg |-> 24],
     [date |-> 7, epsAvg |-> 16], [date |-> 6, epsAvg |-> -5], [date |-> 6, epsAvg |-> NULL],
     [date |-> 8, epsAvg |-> 28], [date |-> NULL, epsAvg |-> 22]}

EstimateLists ==
    UNION {[1..n -> EstimateRecords] : n \in 0..MaxEstimates}

\* (price, trailing PEG): both present; no trailing PEG; no price at all; a
\* price of zero
PriceAndPeg == {<< 40, 120 >>, << 40, NULL >>, << NULL, 120 >>, << 0, 120 >>}

PegAnswers ==
    {[BaseAnswers EXCEPT !.estimates = est, !.q_price = pp[1], !.profile.price = pp[1],
                         !.r_peg = pp[2]] :
        est \in EstimateLists, pp \in PriceAndPeg}

InitPeg ==
    /\ InitModel
    /\ PRIVACY_MODE = {}
    /\ req = BaseReq
    /\ raw \in PegAnswers

SpecPeg == InitPeg /\ [][Next]_vars

\* ------------------------------------------------------------ growth tier
\* trailing revenue growth (hundredths) at both sides of 5%, 20% and 50%
GrowthRates == {NULL, 5, 6, 20, 21, 50, 51}

\* trailing net-income growth: absent, negative, 30%
NiRates == {NULL, -10, 30}

\* no estimates; FY1 2.0 with FY2 1.6, 2.2, 2.8 and 3.2: a forward growth of
\* -20%, 10%, 40% and 60%
GrowthEstimates ==
    {<< >>} \cup {<< [date |-> 6, epsAvg |-> 20], [date |-> 7, epsAvg |-> e] >> :
                    e \in {16, 22, 28, 32}}

\* trailing PEG (hundredths) at both sides of 3.0, zero, negative, absent
TrailingPegs == {NULL, 0, 250, 300, 301, -400}

GrowthAnswers ==
    {[BaseAnswers EXCEPT !.g_rev = rev, !.g_ni = ni, !.estimates = est, !.q_price = price,
                         !.r_peg = peg] :
        rev \in GrowthRates, ni \in NiRates, est \in GrowthEstimates, price \in {40, 150},
        peg \in TrailingPegs}

InitGrowth ==
    /\ InitModel
    /\ PRIVACY_MODE = {}
    /\ req = BaseReq
    /\ raw \in GrowthAnswers

SpecGrowth == InitGrowth /\ [][Next]_vars

\* ------------------------------------------------------------- meme score
\* (price, 200-day average): no average, an average of zero, a price below
\* the average, above it by 10%, by 16% and by 41%
PriceAndAverage ==
    {<< 100, NULL >>, << 100, 0 >>, << 90, 100 >>, << 110, 100 >>, << 116, 100 >>,
     << 141, 100 >>}

\* (volume, average volume): at 1.2 times the average, above it, and above
\* an average of zero
Volumes == {<< 12, 10 >>, << 13, 10 >>, << 13, 0 >>}

\* P/S around 8 and 20, EV/EBITDA around 30 and 40, beta around 1.3 and 2.0,
\* FCF yield around 1%, PEG around 0, 3 and 4, ROIC around 20%
MemeAnswers ==
    {[BaseAnswers EXCEPT
         !.q_price = pa[1], !.q_priceAvg200 = pa[2], !.r_ps = ps, !.r_evMultiple = ev,
         !.profile.beta = beta, !.m_fcfYield = fcf, !.r_peg = peg, !.q_volume = v[1],
         !.q_avgVolume = v[2], !.m_roic = roic] :
        pa \in PriceAndAverage, ps \in {NULL, 801, 2001}, ev \in {NULL, 30, 41},
        beta \in {130, 131, 201}, fcf \in {NULL, 99, 100},
        peg \in {NULL, -50, 250, 300, 401}, v \in Volumes, roic \in {20, 21}}

InitMeme ==
    /\ InitModel
    /\ PRIVACY_MODE = {}
    /\ req = BaseReq
    /\ raw \in MemeAnswers

SpecMeme == InitMeme /\ [][Next]_vars

\* ---------------------------------------------------------- risk estimate
\* beta (hundredths): absent, zero, 0.5, 1.5, 1.6, negative
Betas == {NULL, 0, 50, 150, 160, -50}

\* the VIX quote: absent, zero, 15, 40
VixQuotes == {NULL, 0, 15, 40}

\* (quote price, profile price): both present; the profile's alone; neither;
\* a quote of zero over a profile without price
QuoteAndProfilePrice ==
    {<< 100, 100 >>, << NULL, 100 >>, << NULL, NULL >>, << 0, NULL >>}

\* profitable (EPS 2.0) and unprofitable (EPS -1.0) securities, the VIX or
\* the quote fetch failing or not
RiskAnswers ==
    {[BaseAnswers EXCEPT
         !.profile.beta = beta, !.vix_price = vix, !.failed = f, !.q_price = pp[1],
         !.profile.price = pp[2], !.r_eps = eps] :
        beta \in Betas, vix \in VixQuotes, f \in {{}, {"vix"}, {"quote"}},
        pp \in QuoteAndProfilePrice, eps \in {20, -10}}

InitRisk ==
    /\ InitModel
    /\ PRIVACY_MODE = {}
    /\ req = BaseReq
    /\ raw \in RiskAnswers

SpecRisk == InitRisk /\ [][Next]_vars

\* ------------------------------------------------- quarterly cash flows
\* the longest list of cash-flow statements the provider answers with
MaxQuarters == 5

\* a quarter's statement (billions): operating cash flow 4 or -4 with D&A 2,
\* and one without operating cash flow, one without D&A
QuarterRecords ==
    {[cfo |-> 4, da |-> 2], [cfo |-> -4, da |-> 2], [cfo |-> NULL, da |-> 2],
     [cfo |-> 4, da |-> NULL]}

QuarterLists ==
    UNION {[1..n -> QuarterRecords] : n \in 0..MaxQuarters}

\* market cap (billions) of the quote and of the profile: present, absent
\* from both, zero
MarketCaps == {<< 50, 50 >>, << NULL, NULL >>, << 0, NULL >>}

CashFlowAnswers ==
    {[BaseAnswers EXCEPT !.cf = cf, !.q_marketCap = cap[1], !.profile.mktCap = cap[2],
                         !.m_fcfYield = fcf] :
        cf \in QuarterLists, cap \in MarketCaps, fcf \in {NULL, 300}}

InitCashFlow ==
    /\ InitModel
    /\ PRIVACY_MODE = {}
    /\ req = BaseReq
    /\ raw \in CashFlowAnswers

SpecCashFlow == InitCashFlow /\ [][Next]_vars

\* ------------------------------------------------------ earnings history
\* the most past earnings reports the provider answers with
MaxEarnings == 5

\* how many reports dated after today precede them: none, or enough to fill
\* 9 of the 12 places
FutureReports == {0, 9}

\* EPS (tenths) of a past report; NULL: the report has no EPS
PastEps == {-20, -10, 10, NULL}

\* a report of the given day and EPS, with revenue
Report(date, eps) ==
    [date |-> date, epsActual |-> eps, epsEstimated |-> 5, revenueActual |-> 7,
     revenue |-> NULL]

\* k reports after today (profitable ones), then the past ones: the most
\* recent of them dated today, each one a day before the one listed before it
EarningsList(k, epss) ==
    [i \in 1..(k + Len(epss)) |->
        IF i <= k THEN Report(TODAY + k + 1 - i, 10)
        ELSE Report(TODAY + 1 - (i - k), epss[i - k])]

\* list.reverse(): the provider answering oldest first
RECURSIVE Reverse(_)
Reverse(s) == IF s = << >> THEN << >> ELSE Append(Reverse(Tail(s)), Head(s))

EarningsLists ==
    LET listed == {EarningsList(k, epss) :
                      k \in FutureReports,
                      epss \in UNION {[1..n -> PastEps] : n \in 0..MaxEarnings}}
    IN  listed \cup {Reverse(s) : s \in listed}

\* net margin (hundredths) and 200-day average against a price of 100: a
\* profitable security in an uptrend, a loss-making one under its average
MarginAndAverage == {<< 10, 90 >>, << -10, 110 >>}

EarningsAnswers ==
    {[BaseAnswers EXCEPT !.earnings = e, !.r_netMargin = t[1], !.q_priceAvg200 = t[2]] :
        e \in EarningsLists, t \in MarginAndAverage}

InitEarnings ==
    /\ InitModel
    /\ PRIVACY_MODE = {}
    /\ req = BaseReq
    /\ raw \in EarningsAnswers

SpecEarnings == InitEarnings /\ [][Next]_vars

\* ------------------------------------------------- two requests at a time
\* the running request: its interaction, process_analysis' locals and its
\* ValuationModel instance (line 764), with what it has sent
Running ==
    [req |-> req, raw |-> raw, pc |-> pc, is_privacy_mode |-> is_privacy_mode,
     profile_data |-> profile_data, data |-> data, strategy |-> strategy,
     short_term_verdict |-> short_term_verdict, long_term_verdict |-> long_term_verdict,
     risk_var |-> risk_var, logs |-> logs, loc |-> loc, result |-> result, sent |-> sent]

\* a request that has not begun: ValuationModel.__init__'s values
Waiting(r) ==
    [req |-> r.req, raw |-> r.raw, pc |-> "start", is_privacy_mode |-> FALSE,
     profile_data |-> NoAnswer,
     data |-> FetchedData([f \in DOMAIN FieldEndpoint |-> NULL] @@ [failed |-> Endpoints]),
     strategy |-> "default", short_term_verdict |-> "unknown",
     long_term_verdict |-> "unknown", risk_var |-> NULLQ, logs |-> << >>,
     loc |-> [stage |-> "new"], result |-> [ok |-> FALSE], sent |-> << >>]

\* the request is at an await: before defer and fetch_data, in
\* channel.send (privacy mode), after followup.send
AtAwait ==
    \/ pc \in {"start", "fetch", "fetched", "done", "raised"}
    \/ pc = "a_base" /\ is_privacy_mode

\* self.logs a class attribute: one list for every instance
Resumed_SharedLogs(saved, running) == [saved EXCEPT !.logs = running.logs]

\* what a resumed request finds: every attribute is set per instance in
\* __init__ (lines 168-179), every other name is a local of its coroutine
Resumed(saved, running) == saved

\* the event loop suspends the running request at an await and resumes the
\* other one
Switch ==
    /\ AtAwait
    /\ other.pc \notin {"none", "done", "raised"}
    /\ LET r == Resumed(other, Running)
       IN  /\ req' = r.req
           /\ raw' = r.raw
           /\ pc' = r.pc
           /\ is_privacy_mode' = r.is_privacy_mode
           /\ profile_data' = r.profile_data
           /\ data' = r.data
           /\ strategy' = r.strategy
           /\ short_term_verdict' = r.short_term_verdict
           /\ long_term_verdict' = r.long_term_verdict
           /\ risk_var' = r.risk_var
           /\ logs' = r.logs
           /\ loc' = r.loc
           /\ result' = r.result
           /\ sent' = r.sent
    /\ other' = Running
    /\ UNCHANGED << PRIVACY_MODE, privacy_reply >>

NextConcurrent == Next \/ Switch

\* a loss-making security under its 200-day average
TrapAnswers ==
    [BaseAnswers EXCEPT !.r_netMargin = -10, !.q_priceAvg200 = 110]

\* a company with a history, a beta of 1.5 and a volume above its average
BusyAnswers ==
    [RichAnswers EXCEPT !.profile.beta = 150, !.q_volume = 13]

\* the fetched data of a request: ticker, profile and endpoints
Datasets ==
    << [ticker |-> "XOM", raw |-> BaseAnswers],
       [ticker |-> "NVDA", raw |-> BusyAnswers],
       [ticker |-> "XOM", raw |-> [TrapAnswers EXCEPT !.profile.beta = 50]] >>

\* the request of a user for a dataset
Request(user, d) ==
    [req |-> [user |-> user, ticker |-> Datasets[d].ticker, force_private |-> FALSE],
     raw |-> Datasets[d].raw]

\* user 1 asks; user 2, in privacy mode or not, asks at the same time or not
InitConcurrent ==
    /\ InitRun
    /\ PRIVACY_MODE \in {{}, {2}}
    /\ \E d \in DOMAIN Datasets : req = Request(1, d).req /\ raw = Request(1, d).raw
    /\ other \in {Idle} \cup {Waiting(Request(2, d)) : d \in DOMAIN Datasets}

SpecConcurrent == InitConcurrent /\ [][NextConcurrent]_vars

\* ------------------------------------------------- the /privacy command
\* the users of the server
Users == {1, 2}

\* lines 751-754: PRIVACY_MODE[user_id] = not PRIVACY_MODE.get(user_id, False)
Toggled(mode, user_id) ==
    IF user_id \in mode THEN mode \ {user_id} ELSE mode \cup {user_id}

\* lines 749-756: a user switches their privacy mode and is told the new
\* state; the handler runs before the request begins or while it is
\* suspended at an await
privacy ==
    /\ AtAwait /\ pc \notin {"done", "raised"}
    /\ \E user_id \in Users :
          /\ PRIVACY_MODE' = Toggled(PRIVACY_MODE, user_id)
          /\ privacy_reply' = [user |-> user_id, state |-> user_id \notin PRIVACY_MODE]
    /\ UNCHANGED << req, raw, pc, is_privacy_mode, profile_data, data, modelVars, sent, other >>

NextPrivacy == Next \/ privacy

\* user 1 asks through /analyze or /private_analyze, either user's privacy
\* mode on or off; the profile answers, answers without a price, answers
\* with an empty record, or fails; the quote answers or fails
InitPrivacy ==
    /\ InitModel
    /\ PRIVACY_MODE \in SUBSET Users
    /\ req \in {[BaseReq EXCEPT !.force_private = f] : f \in BOOLEAN}
    /\ raw \in {[RichAnswers EXCEPT !.failed = f, !.profile = p[1], !.screener = p[2]] :
                    f \in {{}, {"quote"}},
                    p \in ProfileCases
                          \cup {<< [RichAnswers.profile EXCEPT !.nonempty = FALSE], NoScreener >>}}

SpecPrivacy == InitPrivacy /\ [][NextPrivacy]_vars

\* analyze has returned its dict (line 708)
Analyzed == pc \in {"reply", "done", "raised"} /\ result.ok

\* ------------------------------------------------------------------ C1
\* C1 as stated: within one analyze pass, once a rule has set the strategy
\* text no later step replaces it.
C1_FirstMatchWins ==
    [][strategy # "default" => strategy' = strategy]_vars

\* C1, amended: a strategy text already set is replaced only by the
\* blue-ocean / hard-tech rule when the text contains "风险" (the meme texts
\* of 80% and above), by the low-P/E trap rule, or by the defensive rule when
\* the text does not contain "陷阱"; every other rule writes only while the
\* text is still the default.
C1_ReplacedOnlyByOverride ==
    [][(strategy # "default" /\ strategy' # strategy) =>
          \/ /\ pc = "a_track_rule"
             /\ strategy \in {"meme80", "meme90"}
             /\ strategy' \in {"blue", "hardtech"}
          \/ /\ pc = "a_final_rules"
             /\ strategy' \in {"trap", "defensive"}
             /\ strategy # "trap"]_vars

\* the blue-ocean rule has replaced the meme text of a security at 80% or more
C1_Witness ==
    /\ pc = "a_quality_rule"
    /\ strategy = "blue"
    /\ loc.meme_pct >= 80 /\ ~loc.is_giant
    /\ ~loc.use_ps_valuation

\* ------------------------------------------------------------------ C2
\* net margin below -0.10 and a (non-zero) price below the 200-day average
DeepLossDowntrend ==
    /\ loc.net_margin # NULL /\ loc.net_margin < -10
    /\ Truthy(loc.price) /\ loc.price > 0
    /\ loc.price_200ma # NULL /\ loc.price < loc.price_200ma

\* C2 as stated: every security with net margin below -0.10 and price below
\* its 200-day average ends analyze with the falling-knife text, whatever its
\* sector, ticker or revenue growth.
C2_FallingKnifeAlways ==
    (Analyzed /\ DeepLossDowntrend) => strategy = "knife"

\* C2, amended: every security with net margin below -0.10 and a positive
\* price below its 200-day average that is not valued by P/S (it is profitable
\* on EPS, or it is neither blue-ocean nor hard-tech nor growing its revenue by
\* more than 10%) ends analyze with the falling-knife text, whatever other
\* rule also matches.
C2_FallingKnifeUnlessPs ==
    (Analyzed /\ DeepLossDowntrend
        /\ (loc.is_profitable_strict
              \/ (~loc.is_blue_ocean /\ ~loc.is_hard_tech_growth
                    /\ ~(loc.rev_growth # NULL /\ loc.rev_growth > 10))))
    => strategy = "knife"

\* a falling knife that also matches the low-P/E trap rule, the defensive
\* rule and the top-quality rule
C2_Witness ==
    /\ Analyzed /\ DeepLossDowntrend
    /\ strategy = "knife"
    /\ loc.pe_ttm = 6 /\ loc.rev_growth = -10 /\ loc.beta = 50 /\ loc.roic = 25
    /\ ~IsNullQ(loc.fcf_yield_used) /\ QGt(loc.fcf_yield_used, Q(3, 100))

\* ------------------------------------------------------------------ C3
\* ROIC > 0.20 and a macro-adjusted EV/EBITDA-to-sector ratio below 0.7
TopQualityCheap ==
    /\ loc.roic # NULL /\ loc.roic > 20
    /\ loc.ev_ebitda # NULL
    /\ loc.ev_ebitda * 100 < 7 * loc.sector_avg * loc.macro_discount_factor

\* C3 as stated: ROIC > 0.20 and an adjusted ratio below 0.7 always end with
\* the golden-window text, whatever the other inputs are.
C3_GoldenWindowAlways ==
    (Analyzed /\ TopQualityCheap) => strategy = "golden"

\* the low-P/E trap rule or the defensive rule matches (lines 696, 701)
FinalRuleMatches ==
    \/ (Truthy(loc.pe_ttm) /\ loc.pe_ttm < 8 /\ Truthy(loc.rev_growth) /\ loc.rev_growth < -5)
    \/ (Truthy(loc.beta) /\ loc.beta < 60 /\ TruthyQ(loc.fcf_yield_used)
          /\ QGt(loc.fcf_yield_used, Q(3, 100)))

\* C3, amended: a security with ROIC > 0.20 whose EV/EBITDA is below 0.9 times
\* its sector average ends with the golden-window text (and not the
\* core-asset or giant text) provided it is valued by EV/EBITDA and not by
\* P/S, is no value trap and not blue-ocean, its meme percentage is below 50,
\* the FCF yield in use is present and at least 0.01, its adjusted FCF yield is
\* absent or at most 0.04, and neither the low-P/E trap rule nor the defensive
\* rule matches.
C3_GoldenWindowWhenReached ==
    (/\ Analyzed /\ ~loc.is_value_trap
     /\ loc.roic # NULL /\ loc.roic > 20
     /\ loc.ev_ebitda # NULL /\ loc.ev_ebitda * 10 < 9 * loc.sector_avg
     /\ ~loc.use_ps_valuation /\ ~loc.is_blue_ocean
     /\ loc.meme_pct < 50
     /\ ~IsNullQ(loc.fcf_yield_used) /\ QLe(Q(1, 100), loc.fcf_yield_used)
     /\ (IsNullQ(loc.adj_fcf_yield) \/ QLe(loc.adj_fcf_yield, Q(4, 100)))
     /\ ~FinalRuleMatches)
    => strategy = "golden"

\* the golden window of a giant whose adjusted FCF yield would also earn it
\* the giant text
C3_Witness ==
    /\ Analyzed /\ TopQualityCheap
    /\ strategy = "golden"
    /\ loc.is_giant /\ ~IsNullQ(loc.adj_fcf_yield) /\ QGt(loc.adj_fcf_yield, Q(3, 100))

\* ------------------------------------------------------------------ C4
\* the request has ended: process_analysis returned or raised
Ended == pc \in {"done", "raised"}

\* an embed with the verdict has been sent
VerdictSent == \E i \in DOMAIN sent : sent[i].kind = "embed"

\* C4: every request whose issuer profile was obtained ends with a verdict
\* (short-term label, long-term label, strategy, meme percentage) delivered,
\* whichever of the other fetches failed or returned nothing.
C4_VerdictWheneverProfile ==
    (Ended /\ success) => VerdictSent

\* ------------------------------------------------------------------ C5
\* neither the profile endpoint nor the screener answered
NoProfile == ~raw.profile.ok /\ ~raw.screener.ok

\* C5: when the profile endpoint and its screener fallback both return
\* nothing, analyze is never run, no verdict embed is sent, and the request
\* ends with the "analysis failed" message.
C5_NoProfileAnalysisFailed ==
    NoProfile =>
        /\ pc \in {"start", "fetch", "fetched", "done"}
        /\ loc = [stage |-> "new"] /\ ~result.ok
        /\ strategy = "default" /\ long_term_verdict = "unknown"
        /\ \A i \in DOMAIN sent : sent[i].kind \in {"defer", "failed"}
        /\ (pc = "done" => (sent # << >> /\ sent[Len(sent)].kind = "failed"))

\* a request without a profile has ended, every other endpoint having answered
C5_Witness ==
    /\ NoProfile /\ pc = "done"
    /\ raw.failed = {}
    /\ Len(sent) = 2 /\ sent[2].kind = "failed"

\* ------------------------------------------------------------------ C6
\* analyze has computed the macro discount factor (line 385)
MacroKnown == "macro_discount_factor" \in DOMAIN loc

\* the factor the yield alone gives, in tenths
FactorOfYield(y) == IF y > 480 THEN 7 ELSE IF y < 380 THEN 15 ELSE 10

\* C6 as stated: with the 10-year yield present the factor is 0.7 above 4.8,
\* 1.5 below 3.8 and 1.0 otherwise, independently of sector, ticker, growth
\* and P/E.
C6_FactorByYieldAlone ==
    (MacroKnown /\ loc.yield_10y # NULL) =>
        loc.macro_discount_factor = FactorOfYield(loc.yield_10y)

\* a growth asset by lines 385: blue-ocean, hard-tech, growth above 0.15 or
\* P/E above 30
GrowthAsset ==
    \/ loc.is_blue_ocean
    \/ loc.is_hard_tech_growth
    \/ QGt(loc.max_growth, Q(15, 100))
    \/ (loc.pe_ttm # NULL /\ loc.pe_ttm > 30)

\* C6, amended: with the 10-year yield present, the factor of a growth asset
\* is 0.7 above 4.8, 1.5 below 3.8 and 1.0 otherwise; the factor of every
\* other security is 1.0; the factor is always one of 0.7, 1.0, 1.5.
C6_FactorByYieldForGrowthAssets ==
    MacroKnown =>
        /\ loc.macro_discount_factor \in {7, 10, 15}
        /\ (loc.yield_10y # NULL /\ GrowthAsset) =>
               loc.macro_discount_factor = FactorOfYield(loc.yield_10y)
        /\ (loc.yield_10y # NULL /\ ~GrowthAsset) => loc.macro_discount_factor = 10

\* a growth asset only by its P/E has been given the headwind factor
C6_Witness ==
    /\ MacroKnown /\ pc = "done"
    /\ ~loc.is_blue_ocean /\ ~loc.is_hard_tech_growth /\ loc.pe_ttm = 40
    /\ loc.yield_10y = 481 /\ loc.macro_discount_factor = 7

\* ------------------------------------------------------------------ C7
\* C7: a yield of exactly 4.8 or exactly 3.8 leaves the factor at 1.0, and an
\* absent yield gives 1.0, for every security.
C7_StrictAndNeutral ==
    (MacroKnown /\ loc.yield_10y \in {480, 380, NULL}) => loc.macro_discount_factor = 10

\* a growth asset at a yield of exactly 4.8 keeps the neutral factor
C7_Witness ==
    /\ MacroKnown /\ pc = "done"
    /\ loc.is_growth_asset /\ loc.yield_10y = 480
    /\ loc.macro_discount_factor = 10 /\ "macro:headwind" \notin {logs[i] : i \in DOMAIN logs}

\* ------------------------------------------------------------------ C8
\* the EV/EBITDA branch (lines 485-503) has classified the security
EvRuleEvaluated == "valuation_rule" \in DOMAIN loc /\ loc.valuation_rule = "ev"

\* adjusted = (EV/EBITDA / sector average) / macro factor against 0.7 and 1.3
AdjustedBelow07 == loc.ev_ebitda * 100 < 7 * loc.sector_avg * loc.macro_discount_factor
AdjustedAbove13 == loc.ev_ebitda * 100 > 13 * loc.sector_avg * loc.macro_discount_factor

\* growth tier high or hyper
HighOrHyper == loc.growth_desc \in {"high", "hyper"}

\* PEG present and below the bound
PegBelow(hi) == ~IsNullQ(loc.peg_used) /\ QLt(loc.peg_used, hi)

\* PEG present and strictly between 0 and the bound
PegWithin(hi) == PegBelow(hi) /\ QGt(loc.peg_used, Q(0, 1))

\* C8 as stated: cheap when adjusted < 0.7; expensive when adjusted > 1.3,
\* except the growth-justified premium when the growth tier is high or hyper
\* and PEG < 2.0; fair for every other adjusted value.
C8_TriWay ==
    EvRuleEvaluated =>
        short_term_verdict =
            IF AdjustedBelow07 THEN "cheap"
            ELSE IF AdjustedAbove13
            THEN (IF HighOrHyper /\ PegBelow(Q(2, 1)) THEN "fair_premium" ELSE "expensive")
            ELSE "fair"

\* C8, amended: when the growth tier is high or hyper and 0 < PEG < 1.5 the
\* classification is "cheap (high growth)" whatever adjusted is; otherwise it
\* is cheap when adjusted < 0.7; expensive when adjusted > 1.3, except the
\* growth-justified premium when the tier is high or hyper and 0 < PEG < 2.0;
\* fair for every other adjusted value.
C8_TriWayAfterLowPeg ==
    EvRuleEvaluated =>
        short_term_verdict =
            IF HighOrHyper /\ PegWithin(Q(3, 2)) THEN "cheap_growth"
            ELSE IF AdjustedBelow07 THEN "cheap"
            ELSE IF AdjustedAbove13
            THEN (IF HighOrHyper /\ PegWithin(Q(2, 1)) THEN "fair_premium" ELSE "expensive")
            ELSE "fair"

\* a fast grower with PEG 1.2 and an adjusted ratio above 1.3 is classified
\* cheap (high growth)
C8_Witness ==
    /\ EvRuleEvaluated /\ pc = "done"
    /\ AdjustedAbove13 /\ HighOrHyper /\ loc.peg_used = Q(120, 100)
    /\ short_term_verdict = "cheap_growth"

\* ------------------------------------------------------------------ C9
\* lines 461-503 are behind the security
Valued == "valuation_rule" \in DOMAIN loc

\* the P/S branch (lines 463-484) has classified the security
PsRuleEvaluated == Valued /\ loc.valuation_rule = "ps"

\* P/S against 1.5 / 3.0 / 8.0 (2.0 / 5.0 / 15.0 when blue-ocean), each times
\* the macro factor
PsClass ==
    LET m  == loc.macro_discount_factor
        th == IF loc.is_blue_ocean THEN << 20, 50, 150 >> ELSE << 15, 30, 80 >>
    IN  IF loc.ps_ratio < th[1] * m THEN "ps_low"
        ELSE IF loc.ps_ratio < th[2] * m THEN "ps_fair"
        ELSE IF loc.ps_ratio < th[3] * m THEN "ps_premium"
        ELSE "ps_hot"

\* C9 as stated: the EV/EBITDA classification is applied only to profitable
\* securities; every unprofitable security is classified by P/S against the
\* thresholds times the macro factor.
C9_EvOnlyIfProfitable ==
    Valued =>
        /\ loc.valuation_rule = "ev" => loc.is_profitable_strict
        /\ (~loc.is_profitable_strict /\ loc.ps_ratio # NULL) =>
               (PsRuleEvaluated /\ short_term_verdict = PsClass)

\* unprofitable and blue-ocean or hard-tech, or losing more than 5% of revenue
\* while growing it by more than 10% (lines 438-442)
PsValued ==
    /\ ~loc.is_profitable_strict
    /\ \/ loc.is_blue_ocean
       \/ loc.is_hard_tech_growth
       \/ /\ loc.net_margin # NULL /\ loc.net_margin < -5
          /\ loc.rev_growth # NULL /\ loc.rev_growth > 10

\* unprofitable, not valued by P/S, and losing more than 5% of revenue or
\* more than 5% of FCF yield (lines 444-451)
Distressed ==
    /\ ~loc.is_profitable_strict /\ ~PsValued
    /\ \/ (loc.net_margin # NULL /\ loc.net_margin < -5)
       \/ (loc.fcf_yield_api # NULL /\ loc.fcf_yield_api < -500)

\* C9, amended: the EV/EBITDA classification is applied to the securities
\* with an EV/EBITDA that are profitable, or unprofitable but neither valued
\* by P/S nor distressed; an unprofitable security is classified by P/S
\* against 1.5 / 3.0 / 8.0 (2.0 / 5.0 / 15.0 when blue-ocean), each times the
\* macro factor, exactly when its P/S is present and it is blue-ocean or
\* hard-tech or loses more than 5% of revenue while growing it by more than
\* 10%; a distressed security keeps its distress label.
C9_EvUnlessPsOrDistressed ==
    Valued =>
        /\ loc.valuation_rule = "ev" <=> (loc.ev_ebitda # NULL /\ ~PsValued /\ ~Distressed)
        /\ PsRuleEvaluated <=> (PsValued /\ loc.ps_ratio # NULL)
        /\ PsRuleEvaluated => short_term_verdict = PsClass
        /\ Distressed => short_term_verdict \in {"distress_growth", "distress_bleed"}

\* an unprofitable security with a present P/S that the EV/EBITDA branch has
\* classified
C9_Witness ==
    /\ Valued /\ pc = "done"
    /\ ~loc.is_profitable_strict /\ loc.ps_ratio = 100
    /\ loc.valuation_rule = "ev" /\ short_term_verdict = "cheap"

\* ----------------------------------------------------------------- C10
\* analyze has chosen the PEG it uses (line 326)
PegResolved == "peg_used" \in DOMAIN loc

\* the estimate records dated strictly after today, by their place in the
\* provider's answer
FutureIdx ==
    {i \in DOMAIN data.estimates :
        data.estimates[i].date # NULL /\ data.estimates[i].date > TODAY}

\* record i comes before record j by date, and by place when the dates agree
Earlier(i, j) ==
    \/ data.estimates[i].date < data.estimates[j].date
    \/ (data.estimates[i].date = data.estimates[j].date /\ i < j)

\* the earliest and the second earliest future record
Fy1 == CHOOSE i \in FutureIdx : \A j \in FutureIdx \ {i} : Earlier(i, j)
Fy2 == CHOOSE i \in FutureIdx \ {Fy1} : \A j \in FutureIdx \ {Fy1, i} : Earlier(i, j)

\* at least two future records, eps(FY1) > 0 and a forward growth > 0
ForwardGrowthPositive ==
    /\ Cardinality(FutureIdx) >= 2
    /\ data.estimates[Fy1].epsAvg # NULL /\ data.estimates[Fy1].epsAvg > 0
    /\ data.estimates[Fy2].epsAvg # NULL
    /\ data.estimates[Fy2].epsAvg > data.estimates[Fy1].epsAvg

\* peg_used = (price / eps(FY1)) / (100 * (eps(FY2) - eps(FY1)) / eps(FY1)),
\* that is price / (100 * (eps(FY2) - eps(FY1))), EPS being in tenths
IsForwardPeg ==
    /\ ~IsNullQ(loc.peg_used)
    /\ loc.peg_used.n * 10 * (data.estimates[Fy2].epsAvg - data.estimates[Fy1].epsAvg)
           = loc.price * loc.peg_used.d

\* peg_used is the provider's trailing-twelve-month PEG, absent when that is
IsTtmPeg == loc.peg_used = FromH(data.r_peg)

\* C10 as stated, of a security whose price is known: the PEG used is the
\* forward PEG of the two earliest estimates dated strictly after today
\* exactly when at least two such records exist, eps(FY1) > 0 and the forward
\* growth is > 0; in every other case it is the trailing-twelve-month PEG.
C10_ForwardPegExactlyWhen ==
    (PegResolved /\ loc.price # NULL) =>
        /\ loc.is_forward_peg_used <=> ForwardGrowthPositive
        /\ IF ForwardGrowthPositive THEN IsForwardPeg ELSE IsTtmPeg

\* C10, amended: the same, exactly when moreover the price is present and
\* not zero.
C10_ForwardPegWhenPriced ==
    PegResolved =>
        /\ loc.is_forward_peg_used <=> (ForwardGrowthPositive /\ Truthy(loc.price))
        /\ IF ForwardGrowthPositive /\ Truthy(loc.price) THEN IsForwardPeg ELSE IsTtmPeg

\* EPS 2.0 and 2.4 at price 40 give a forward PEG of 1.0, the answer listing
\* the later estimate first and an estimate dated today between them
C10_Witness ==
    /\ PegResolved /\ pc = "done"
    /\ data.estimates = << [date |-> 7, epsAvg |-> 24], [date |-> 5, epsAvg |-> 30],
                           [date |-> 6, epsAvg |-> 20] >>
    /\ loc.price = 40
    /\ loc.is_forward_peg_used /\ QEq(loc.peg_used, Q(1, 1))

\* ----------------------------------------------------------------- C11
\* the growth rates that are present: trailing revenue growth, trailing
\* net-income growth, forward growth
PresentGrowths ==
    {g \in {FromH(data.g_rev), FromH(data.g_ni), loc.fwd_growth} : ~IsNullQ(g)}

\* the greatest present growth rate is above h percent
GrowthAbove(h) == \E g \in PresentGrowths : QGt(g, Q(h, 100))

\* hyper above 50%, high above 20%, stable above 5%, low otherwise
TierByGrowth ==
    IF GrowthAbove(50) THEN "hyper"
    ELSE IF GrowthAbove(20) THEN "high"
    ELSE IF GrowthAbove(5) THEN "stable"
    ELSE "low"

\* the PEG in use is present and above 3.0
PegAbove3 == ~IsNullQ(result.peg) /\ QGt(result.peg, Q(3, 1))

\* C11 as stated: the reported growth tier is one of low / stable / high /
\* hyper, the bucket of the greatest present growth rate (hyper above 50%,
\* high above 20%, stable above 5%, low otherwise), whatever the PEG is.
C11_TierByGrowthAlone ==
    Analyzed => result.growth_desc = TierByGrowth

\* C11, amended: the reported tier is "high expectation" when the PEG in use
\* is present and above 3.0, and the bucket of the greatest present growth
\* rate otherwise.
C11_TierUnlessHighPeg ==
    Analyzed => result.growth_desc = IF PegAbove3 THEN "expect" ELSE TierByGrowth

\* a forward growth of 60% over trailing rates of 5% and -10% reports hyper,
\* the forward PEG (0.33) being present
C11_Witness ==
    /\ Analyzed /\ pc = "done"
    /\ data.g_rev = 5 /\ data.g_ni = -10
    /\ QEq(loc.fwd_growth, Q(60, 100)) /\ loc.is_forward_peg_used
    /\ result.growth_desc = "hyper"

\* ----------------------------------------------------------------- C12
\* analyze has computed the meme percentage (line 425)
MemeScored == "meme_pct" \in DOMAIN loc

\* C12: the reported meme percentage is 10 times the raw point total clamped
\* to [0, 10]: a multiple of 10 between 0 and 100, exactly 100 for a raw
\* total above 10 and exactly 0 for a negative raw total.
C12_ClampedTimesTen ==
    MemeScored =>
        /\ loc.meme_pct \in {10 * k : k \in 0..10}
        /\ loc.meme_score > 10 => loc.meme_pct = 100
        /\ loc.meme_score < 0 => loc.meme_pct = 0
        /\ loc.meme_score \in 0..10 => loc.meme_pct = 10 * loc.meme_score
        /\ Analyzed => result.meme_pct = loc.meme_pct

\* a raw total of 11 is reported as 100
C12_Witness ==
    /\ Analyzed /\ pc = "done"
    /\ loc.meme_score = 11 /\ result.meme_pct = 100

\* ----------------------------------------------------------------- C13
\* the reference points, each from the values as the provider gave them
RefTrend ==
    IF loc.price # NULL /\ loc.price_200ma # NULL
    THEN IF loc.price * 10 > loc.price_200ma * 14 THEN 2
         ELSE IF loc.price * 100 > loc.price_200ma * 115 THEN 1
         ELSE 0
    ELSE 0

RefPsAbove(x) == loc.ps_ratio # NULL /\ loc.ps_ratio > 100 * x

RefEvAbove(x) == loc.ev_ebitda # NULL /\ loc.ev_ebitda > x

RefMultiple ==
    IF RefPsAbove(20) \/ RefEvAbove(80) THEN 4
    ELSE IF RefPsAbove(10) \/ RefEvAbove(40) THEN 2
    ELSE IF RefPsAbove(8) \/ RefEvAbove(30) THEN 1
    ELSE 0

RefBeta == IF loc.beta > 200 THEN 2 ELSE IF loc.beta > 130 THEN 1 ELSE 0

\* the PEG in use is present and outside [0, 4]
RefPegOutside ==
    ~IsNullQ(loc.peg_used) /\ (loc.peg_used.n < 0 \/ loc.peg_used.n > 4 * loc.peg_used.d)

\* the PEG in use is present and inside (0, 3)
RefPegInside ==
    ~IsNullQ(loc.peg_used) /\ loc.peg_used.n > 0 /\ loc.peg_used.n < 3 * loc.peg_used.d

RefFcfBelow1 == loc.fcf_yield_api # NULL /\ loc.fcf_yield_api < 100

RefDistortion(above) == IF above /\ (RefFcfBelow1 \/ RefPegOutside) THEN 2 ELSE 0

RefShield ==
    IF loc.roic # NULL /\ loc.roic > 20 THEN (IF RefPegInside THEN -3 ELSE -1) ELSE 0

RefAboveAverage ==
    loc.price # NULL /\ loc.price_200ma # NULL /\ loc.price > loc.price_200ma

RefVolumeAbove ==
    loc.vol_today # NULL /\ loc.vol_avg # NULL /\ loc.vol_today * 10 > loc.vol_avg * 12

\* C13 as stated: the raw meme point total is the reference sum of the trend,
\* multiple, beta, reality-distortion, volume and quality-shield points.
C13_RawTotalIsReferenceSum ==
    MemeScored =>
        loc.meme_score = RefTrend + RefMultiple + RefBeta + RefDistortion(RefAboveAverage)
                         + (IF RefVolumeAbove THEN 1 ELSE 0) + RefShield

\* C13, amended: the same sum, the trend and reality-distortion points given
\* only when the 200-day average is not zero and the volume point only when
\* the average volume is positive.
C13_ReferenceSumOfNonZero ==
    MemeScored =>
        loc.meme_score =
            (IF loc.price_200ma # 0 THEN RefTrend ELSE 0) + RefMultiple + RefBeta
            + RefDistortion(RefAboveAverage /\ loc.price_200ma # 0)
            + (IF RefVolumeAbove /\ loc.vol_avg > 0 THEN 1 ELSE 0) + RefShield

\* price 41% above the average (+2), P/S above 20 (+4), beta above 2.0 (+2),
\* FCF yield below 1% (+2), volume above 1.2 times the average (+1), ROIC
\* above 20% with a PEG of 2.5 (-3): a raw total of 8
C13_Witness ==
    /\ Analyzed /\ pc = "done"
    /\ loc.price = 141 /\ loc.price_200ma = 100 /\ loc.ps_ratio = 2001 /\ loc.beta = 201
    /\ loc.fcf_yield_api = 99 /\ loc.vol_today = 13 /\ loc.vol_avg = 10
    /\ loc.roic = 21 /\ QEq(loc.peg_used, Q(250, 100))
    /\ loc.meme_score = 8 /\ result.meme_pct = 80

\* ----------------------------------------------------------------- C14
\* a numeric risk estimate was computed (self.risk_var is not "N/A")
RiskReported == Analyzed /\ ~IsNullQ(risk_var)

\* the reported magnitude in hundredths of a percent
RiskHundredths == (risk_var.n * 100) \div risk_var.d

\* ten times the inflation factor: 1.2 when beta > 1.5 or the security is
\* unprofitable, else 1.0
InflationTenths == IF loc.beta > 150 \/ ~loc.is_profitable_strict THEN 12 ELSE 10

BetaPresent == profile_data.beta # NULL

PricePresent == data.q_price # NULL \/ profile_data.price # NULL

VixPresent == data.vix_price # NULL

\* C15 as stated: the risk estimate is "N/A" whenever beta, price or the VIX
\* quote is absent from the fetched data.
C15_NaWheneverAbsent ==
    (Analyzed /\ ~(BetaPresent /\ PricePresent /\ VixPresent)) => IsNullQ(risk_var)

\* C15, amended: an absent beta counts as 1.0 and an absent VIX quote as 20;
\* the risk estimate is "N/A" exactly when the price is absent from both the
\* quote and the profile or one of price, beta and VIX is zero, and is
\* VIX x beta percent otherwise.
C15_NaWhenNoPriceOrZero ==
    Analyzed =>
        LET price == IF data.q_price # NULL THEN data.q_price ELSE profile_data.price
            beta  == IF BetaPresent THEN profile_data.beta ELSE 100
            vix   == IF VixPresent THEN data.vix_price ELSE 20
        IN  IF price = NULL \/ price = 0 \/ beta = 0 \/ vix = 0
            THEN IsNullQ(risk_var)
            ELSE ~IsNullQ(risk_var) /\ risk_var.n * 100 = vix * beta * risk_var.d

\* with neither beta nor a VIX quote the embed shows a risk of 20.0%
C15_Witness ==
    /\ Analyzed /\ pc = "done"
    /\ ~BetaPresent /\ ~VixPresent /\ PricePresent
    /\ QEq(risk_var, Q(20, 1))
    /\ sent[Len(sent)].kind = "embed" /\ sent[Len(sent)].risk_var = risk_var

\* ----------------------------------------------------------------- C16
\* C16: for every beta > 0 and VIX > 0 a numeric risk estimate is a minus
\* sign followed by a non-negative magnitude (a value <= 0), in the returned
\* dict as in self.risk_var.
C16_NeverPositive ==
    (Analyzed /\ loc.beta > 0 /\ loc.vix > 0) =>
        /\ result.risk_var = risk_var
        /\ IsNullQ(risk_var) \/ (risk_var.d > 0 /\ risk_var.n >= 0)

\* beta 1.6 at a VIX of 40: the embed shows -64.0%
C16_Witness ==
    /\ Analyzed /\ pc = "done"
    /\ profile_data.beta = 160 /\ data.vix_price = 40
    /\ risk_var = Q(6400, 100)
    /\ sent[Len(sent)].kind = "embed" /\ sent[Len(sent)].risk_var = risk_var

\* ----------------------------------------------------------------- C17
\* analyze has chosen the FCF yield it uses (line 361)
YieldResolved == "fcf_yield_used" \in DOMAIN loc

\* quarter i has both operating cash flow and D&A
Complete(i) == data.cf[i].cfo # NULL /\ data.cf[i].da # NULL

\* exactly 4 quarterly records, each with both fields
ExactlyFourComplete == Len(data.cf) = 4 /\ \A i \in 1..4 : Complete(i)

\* the number of records before the first incomplete one
LeadingRun ==
    CHOOSE k \in 0..Len(data.cf) :
        /\ \A i \in 1..k : Complete(i)
        /\ k < Len(data.cf) => ~Complete(k + 1)

\* operating cash flow and D&A summed over the first k records
CfoTo[k \in 0..Len(data.cf)] == IF k = 0 THEN 0 ELSE CfoTo[k - 1] + data.cf[k].cfo

DaTo[k \in 0..Len(data.cf)] == IF k = 0 THEN 0 ELSE DaTo[k - 1] + data.cf[k].da

\* the yield used is (cfo - 50% of da) / market cap
UsesAdjusted(cfo, da) ==
    /\ ~IsNullQ(loc.fcf_yield_used)
    /\ loc.fcf_yield_used.n * 2 * loc.m_cap = (2 * cfo - da) * loc.fcf_yield_used.d

\* the yield used is the provider's raw TTM FCF yield, absent when that is
UsesRaw == loc.fcf_yield_used = FromBp(data.m_fcfYield)

\* C17 as stated: in every case other than exactly 4 quarterly records with
\* both fields present and a market cap (fewer or more records, a record
\* missing a field, no market cap) the yield used is the raw TTM FCF yield.
C17_AdjustedOnlyWithExactlyFour ==
    (YieldResolved /\ ~(ExactlyFourComplete /\ loc.m_cap # NULL)) => UsesRaw

\* C17, amended: the adjusted yield, summed over the records before the
\* first incomplete one, is used exactly when these are at least 4, their
\* operating cash flow does not sum to zero and the market cap is present
\* and positive; the raw TTM FCF yield is used in every other case.
C17_AdjustedWithFourOrMore ==
    YieldResolved =>
        IF /\ LeadingRun >= 4 /\ CfoTo[LeadingRun] # 0
           /\ loc.m_cap # NULL /\ loc.m_cap > 0
        THEN UsesAdjusted(CfoTo[LeadingRun], DaTo[LeadingRun]) /\ ~IsNullQ(loc.adj_fcf_yield)
        ELSE UsesRaw /\ IsNullQ(loc.adj_fcf_yield)

\* four complete quarters of 4 and 2 over a market cap of 50: (16 - 4) / 50
C17_Witness ==
    /\ YieldResolved /\ pc = "done"
    /\ ExactlyFourComplete /\ loc.m_cap = 50
    /\ \A i \in 1..4 : data.cf[i] = [cfo |-> 4, da |-> 2]
    /\ QEq(loc.fcf_yield_used, Q(24, 100)) /\ data.m_fcfYield = 300

\* ----------------------------------------------------------------- C18
\* report i is one of the 12 most recent of the list
AmongTwelve(i) ==
    Cardinality({j \in DOMAIN data.earnings :
                    data.earnings[j].date > data.earnings[i].date}) < 12

\* the valid reports: among the 12 most recent, dated today or earlier, with
\* revenue and EPS
ValidReports ==
    {i \in DOMAIN data.earnings :
        /\ AmongTwelve(i)
        /\ data.earnings[i].date <= TODAY
        /\ (data.earnings[i].revenueActual # NULL \/ data.earnings[i].revenue # NULL)
        /\ data.earnings[i].epsActual # NULL}

\* EPS of the k-th most recent valid report (k = 1: the last one)
EpsBack(k) ==
    LET i == CHOOSE x \in ValidReports :
                 Cardinality({j \in ValidReports :
                                 data.earnings[j].date > data.earnings[x].date}) = k - 1
    IN  data.earnings[i].epsActual

\* of the last n valid reports: all but the last negative, the last positive
TurnaroundOver(n) == (\A k \in 2..n : EpsBack(k) < 0) /\ EpsBack(1) > 0

\* of the last n valid reports: all negative, the last above the one before
NarrowingOver(n) == (\A k \in 1..n : EpsBack(k) < 0) /\ EpsBack(1) > EpsBack(2)

Emitted(line) == \E i \in DOMAIN logs : logs[i] = line

\* the value-trap rule has fired in this pass
Trapped == "is_value_trap" \in DOMAIN loc /\ loc.is_value_trap

\* C18 as stated (where the value-trap rule has not fired): the turnaround
\* and loss-narrowing signals are emitted exactly from the 4 most recent
\* valid reports, and neither with fewer than 4 of them.
C18_SignalsNeedFour ==
    (Analyzed /\ ~Trapped) =>
        LET four == Cardinality(ValidReports) >= 4
        IN  /\ Emitted("reversal:turnaround") <=> (four /\ TurnaroundOver(4))
            /\ Emitted("reversal:narrowing") <=> (four /\ NarrowingOver(4))

\* C18, amended: the signals are emitted from the last 4 valid reports, or
\* from all 3 when there are only 3, and neither with fewer than 3 or after
\* the value-trap rule has fired.
C18_SignalsNeedThree ==
    Analyzed =>
        LET n == IF Cardinality(ValidReports) > 4 THEN 4 ELSE Cardinality(ValidReports)
            derived == n >= 3 /\ ~Trapped
        IN  /\ Emitted("reversal:turnaround") <=> (derived /\ TurnaroundOver(n))
            /\ Emitted("reversal:narrowing") <=> (derived /\ NarrowingOver(n))

\* five past reports after 9 future ones: the oldest falls outside the 12,
\* the last four lose 2.0, 2.0, 2.0 and then earn 1.0
C18_Witness ==
    /\ Analyzed /\ pc = "done"
    /\ Len(data.earnings) = 14 /\ Cardinality(ValidReports) = 3
    /\ Emitted("reversal:turnaround")

\* ----------------------------------------------------------------- C19
\* the labels, strategy, risk, meme percentage and factor log of an embed
Verdict(msg) ==
    [short_term |-> msg.short_term, long_term |-> msg.long_term,
     strategy |-> msg.strategy, risk_var |-> msg.risk_var, meme_pct |-> msg.meme_pct,
     logs |-> msg.logs]

\* what each dataset gives when its request is served alone
SoloVerdict ==
    << [short_term |-> "fair", long_term |-> "neutral", strategy |-> "default",
        risk_var |-> Q(2000, 100), meme_pct |-> 0,
        logs |-> << "sector:", "peg:fair", "alpha:none" >>],
       [short_term |-> "fair", long_term |-> "cheap", strategy |-> "value",
        risk_var |-> Q(3000, 100), meme_pct |-> 20,
        logs |-> << "sector:", "peg:premium", "fix:expansion", "alpha:misses" >>],
       [short_term |-> "fair", long_term |-> "extreme_risk", strategy |-> "knife",
        risk_var |-> Q(1000, 100), meme_pct |-> 0,
        logs |-> << "sector:", "risk:value_trap" >>] >>

\* the requests there are: the running one, the other one
Requests == {Running} \cup (IF other.pc = "none" THEN {} ELSE {other})

\* the request has been answered with an embed
Answered(r) == r.pc = "done" /\ Len(r.sent) > 0 /\ r.sent[Len(r.sent)].kind = "embed"

\* the request's data is dataset d
DataOf(r, d) == r.req.ticker = Datasets[d].ticker /\ r.raw = Datasets[d].raw

\* C19: under any interleaving of two requests each request's labels,
\* strategy, risk, meme percentage and factor log are what its own data gives
\* when served alone, and two requests with identical data get identical
\* results.
C19_VerdictOfOwnData ==
    /\ \A r \in Requests : r.pc = "done" =>
           /\ Answered(r)
           /\ \A d \in DOMAIN Datasets :
                  DataOf(r, d) => Verdict(r.sent[Len(r.sent)]) = SoloVerdict[d]
    /\ \A r1, r2 \in Requests :
           (Answered(r1) /\ Answered(r2) /\ r1.req.ticker = r2.req.ticker /\ r1.raw = r2.raw)
               => Verdict(r1.sent[Len(r1.sent)]) = Verdict(r2.sent[Len(r2.sent)])

\* user 1's request is suspended in fetch_data; user 2's, begun after it and
\* on other data, has run to its embed meanwhile
C19_Witness ==
    /\ req.user = 2 /\ Answered(Running)
    /\ other.pc = "fetched" /\ other.req.user = 1
    /\ other.raw # raw
    /\ Verdict(sent[Len(sent)]) = SoloVerdict[2]

\* ----------------------------------------------------------------- C20
\* the data guards of the rules that write a strategy text, on analyze's
\* values at its return
GuardPsLow == loc.st_status = "ps_low"

GuardKnife ==
    /\ loc.net_margin # NULL /\ loc.net_margin < 0
    /\ Truthy(loc.price_200ma) /\ Truthy(loc.price) /\ loc.price < loc.price_200ma
    /\ ~loc.use_ps_valuation

GuardMeme == loc.meme_pct >= 50 /\ ~(loc.is_giant /\ loc.meme_pct < 80)

\* the rules of lines 580-640 are reached with an FCF yield only
HasYield == ~IsNullQ(loc.fcf_yield_used)

GuardValue ==
    /\ HasYield /\ ~IsNullQ(loc.adj_fcf_yield) /\ ~loc.use_ps_valuation
    /\ QGt(loc.adj_fcf_yield, Q(4, 100))

GuardTrack ==
    HasYield /\ (loc.is_blue_ocean \/ (loc.is_hard_tech_growth /\ loc.use_ps_valuation))

GuardPoor ==
    /\ HasYield /\ ~loc.use_ps_valuation
    /\ QLt(loc.fcf_yield_used, IF Truthy(loc.roic) /\ loc.roic > 20 THEN Q(1, 100) ELSE Q(2, 100))

GuardQuality == HasYield /\ ~loc.use_ps_valuation /\ Truthy(loc.roic) /\ loc.roic > 20

GuardBurn ==
    /\ Truthy(loc.rev_growth) /\ loc.rev_growth > 20 /\ Truthy(loc.roic) /\ loc.roic < 0
    /\ TruthyQ(loc.fcf_yield_used) /\ QLt(loc.fcf_yield_used, Q(-2, 100))

GuardZombie ==
    /\ Truthy(loc.rev_growth) /\ loc.rev_growth < 5 /\ loc.rev_growth > -5
    /\ Truthy(loc.roic) /\ loc.roic < 8
    /\ TruthyQ(loc.fcf_yield_used) /\ QLt(loc.fcf_yield_used, Q(3, 100))

GuardLowPe ==
    /\ Truthy(loc.pe_ttm) /\ loc.pe_ttm < 8
    /\ Truthy(loc.rev_growth) /\ loc.rev_growth < -5

GuardDefensive ==
    /\ Truthy(loc.beta) /\ loc.beta < 60
    /\ TruthyQ(loc.fcf_yield_used) /\ QGt(loc.fcf_yield_used, Q(3, 100))

NoRuleGuard ==
    ~(\/ GuardPsLow \/ GuardKnife \/ GuardMeme \/ GuardValue \/ GuardTrack \/ GuardPoor
      \/ GuardQuality \/ GuardBurn \/ GuardZombie \/ GuardLowPe \/ GuardDefensive)

\* C20: every completed analyze pass ends with one strategy text, and with
\* the "insufficient data" text when no rule guard is true.
C20_TotalWithFallback ==
    Analyzed =>
        /\ strategy \in StrategyTexts
        /\ NoRuleGuard => strategy = "default"

\* a pass in which no rule guard is true, answered with the default text
C20_Witness ==
    /\ Analyzed /\ pc = "done" /\ NoRuleGuard
    /\ strategy = "default"
    /\ sent[Len(sent)].kind = "embed" /\ sent[Len(sent)].strategy = "default"

\* ----------------------------------------------------------------- C21
\* the messages the claim names: acknowledgement, failure notice,
\* "insufficient data" notice, final embed
RequestNotices == {"defer", "failed", "insufficient", "embed"}

\* every such message of the request carries the flag of the acknowledgement
OneVisibility ==
    \A i \in DOMAIN sent :
        sent[i].kind \in RequestNotices => sent[i].ephemeral = sent[1].ephemeral

\* the request begins: its first message is the acknowledgement, flagged by
\* force_private or the user's setting of that moment
FlagReadAtStart ==
    (sent = << >> /\ sent' # << >>) =>
        /\ sent'[1].kind = "defer"
        /\ sent'[1].ephemeral = (req.force_private \/ req.user \in PRIVACY_MODE)

\* a change of PRIVACY_MODE is a change of the caller's entry alone
OnlyCallersEntry ==
    PRIVACY_MODE' # PRIVACY_MODE =>
        /\ privacy_reply'.user \in Users
        /\ \A u \in Users \ {privacy_reply'.user} :
               (u \in PRIVACY_MODE') = (u \in PRIVACY_MODE)
        /\ (privacy_reply'.user \in PRIVACY_MODE') = ~(privacy_reply'.user \in PRIVACY_MODE)

\* C21: every message of a request carries the same visibility flag,
\* force_private or the user's privacy setting read when the request started;
\* a /privacy call interleaved while the request is pending does not change
\* it, /private_analyze is always private, and /privacy changes the calling
\* user's entry only.
C21_OneVisibilityPerRequest ==
    /\ [](OneVisibility /\ (req.force_private /\ sent # << >> => sent[1].ephemeral))
    /\ [][FlagReadAtStart]_vars
    /\ [][OnlyCallersEntry]_vars

\* the user switched privacy mode on after the public acknowledgement; the
\* embed went out public all the same
C21_Witness ==
    /\ pc = "done" /\ ~req.force_private
    /\ privacy_reply = [user |-> req.user, state |-> TRUE] /\ req.user \in PRIVACY_MODE
    /\ Len(sent) = 2 /\ sent[1].kind = "defer" /\ ~sent[1].ephemeral
    /\ sent[2].kind = "embed" /\ ~sent[2].ephemeral

\* ----------------------------------------------------------------- C22
\* the labels st_status takes after line 505: "下跌趋势", "... / 资金动量"
LaterLabels ==
    {"downtrend", "expensive/momentum", "distress_growth/momentum", "distress_bleed/momentum"}

\* the short-term label of the embed, when one has been sent
PublishedShortTerm == {sent[i].short_term : i \in {j \in DOMAIN sent : sent[j].kind = "embed"}}

\* C22: the published short-term verdict is fixed when the valuation stage
\* ends and no later step of analyze changes it: the "downtrend" relabel of
\* the falling-knife rule and the "capital momentum" suffix of meme mode
\* never appear in it.
C22_ShortTermFixedAtValuation ==
    /\ [][pc # "a_valuation" => short_term_verdict' = short_term_verdict]_vars
    /\ [](/\ short_term_verdict \notin LaterLabels
          /\ PublishedShortTerm \subseteq {short_term_verdict}
          /\ PublishedShortTerm \cap LaterLabels = {})

\* the falling-knife rule has relabelled st_status; the embed shows the
\* label of the valuation stage
C22_Witness ==
    /\ pc = "done" /\ loc.is_value_trap /\ loc.st_status = "downtrend"
    /\ strategy = "knife"
    /\ PublishedShortTerm = {short_term_verdict} /\ short_term_verdict # "unknown"

====
